---- MODULE Spec2Model ----
(***************************************************************************)
(* Slopboard Tracker: the session lifecycle (extension.js) and the offline *)
(* delivery queue (extension.js, StorageService.js).                       *)
(*                                                                         *)
(* Time is in milliseconds, as the values of JavaScript's Date.  Every     *)
(* handler of the extension runs to its first await in one step (the       *)
(* JavaScript event loop runs a callback to completion); what follows an   *)
(* await is a step of its own.  Timers (setInterval, setTimeout) fire at   *)
(* any moment after they are armed: the delay asked for is recorded, not   *)
(* enforced.                                                               *)
(***************************************************************************)
EXTENDS Integers, Sequences, FiniteSets, Bags, TLC

(***************************************************************************)
(* Bounds of the model.                                                    *)
(***************************************************************************)
TrackerMaxTime == 1500
FineStep == 500
DeliveryMaxTime == 3000
CoarseStep == 1000
MaxSessions == 3
MaxTimeouts == 1
MaxDrains == 2
MaxRestarts == 1
\* how often the store may fail to remove one and the same record
MaxRemoveFailures == 1
\* the clock of the timed idle check: its step and its horizon
TimedStep == 5000
TimedMaxTime == 150000

(***************************************************************************)
(* The settings the model runs with: seconds, seconds, sessions per batch. *)
(***************************************************************************)
ModelMinSessionDuration == 1
ModelIdleThreshold == 1
ModelBatchSize == 2

(***************************************************************************)
(* A backlog left in the store by earlier runs, and the batch size set     *)
(* for it.                                                                 *)
(***************************************************************************)
BacklogSize == 99
BacklogBatchSize == 80

(***************************************************************************)
(* The longest queue whose grouping is examined.                           *)
(***************************************************************************)
GroupLen == 3

(***************************************************************************)
(* Program constants.                                                      *)
(***************************************************************************)
Null == -1
NoSession == 0
MsPerSecond == 1000
RetryCap == 5
BackoffBase == 1000
BatchThreshold1 == 100
BatchSize1 == 50
BatchThreshold2 == 500
BatchSize2 == 100
FastDelay == 500
SlowDelay == 2000
MaxDelay == 5000
FastDelayThreshold == 1000
IdleCheckPeriod == 10000
DefaultIdleThreshold == 120
DefaultMinSessionDuration == 5

VARIABLES
  now,                  \* the clock, new Date()
  activated,            \* activate() has run
  config,               \* the settings: apiKey (set or not), enabled,
                        \* autoTrackEnabled, idleThreshold,
                        \* minSessionDuration, uploadBatchSize
  activeEditor,         \* vscode.window.activeTextEditor's document
  timezoneOffset,       \* local time minus UTC, in ms (the host's zone)
  isTracking,
  activeSession,        \* id of the open session, NoSession for null
  lastActivityTime,
  activityCheckInterval,\* the idle-check interval: its threshold, or Null
  uploadInterval,       \* the periodic drain interval is armed
  sessions,             \* every session object created, by id
  inflight,             \* ids whose saveSession awaits sendSession
  queue,                \* globalState 'offlineSessions'
  pendingUpload,
  uploadRetryCount,
  drains,               \* executions of sendOfflineSessions past the guard
  timeouts,             \* armed setTimeout(sendOfflineSessions, delay)
  stats,                \* history: per session, what the delivery path did
  warnings,             \* history: counts the offline warning was shown for
  failStreak,           \* history: failed drains since the last success/reset
  enqueueLog,           \* history: ids appended to the queue, in order
  lastFailed,           \* history: the batch of the last drain, if it failed
  idleClosed,           \* history: ids of the sessions the idle check closed
  restarts              \* history: how often the extension host restarted

configVars == <<config, activeEditor, timezoneOffset>>
trackVars == <<isTracking, activeSession, lastActivityTime,
               activityCheckInterval, uploadInterval, sessions, inflight, stats>>
drainVars == <<pendingUpload, uploadRetryCount, drains, timeouts,
               failStreak>>
hist == <<warnings, enqueueLog, lastFailed, idleClosed, restarts>>
vars == <<now, activated, configVars, trackVars, queue, drainVars, hist>>

(***************************************************************************)
(* Documents the editor can show.  A path is a sequence of components; an  *)
(* absolute path starts with the root "/".                                 *)
(***************************************************************************)
NoDoc == "none"
Docs == {"main", "scratch", "untitled", "vendored"}

\* two more: a log file of the project, and an output channel
MoreDocs == Docs \cup {"log", "output"}

isUntitled(d) == d = "untitled"

scheme(d) ==
  CASE d = "untitled" -> "untitled"
    [] d = "output" -> "output"
    [] OTHER -> "file"

fsPath(d) ==
  CASE d = "main" -> <<"/", "home", "proj", "main.py">>
    [] d = "scratch" -> <<"/", "tmp", "scratch.js">>
    [] d = "vendored" -> <<"/", "home", "vendor", "lib.js">>
    [] d = "log" -> <<"/", "home", "proj", "debug.log">>
    [] d = "output" -> <<"extension-output-1">>
    [] OTHER -> <<"Untitled-1">>

NoFolder == <<>>

getWorkspaceFolder(d) ==
  CASE d = "main" -> <<"/", "home", "proj">>
    [] d = "log" -> <<"/", "home", "proj">>
    [] d = "vendored" -> <<"/", "home", "vendor">>
    [] OTHER -> NoFolder

basename(p) == p[Len(p)]

isAbsolute(p) == Len(p) > 0 /\ p[1] = "/"

\* path.relative(from, to) for a `to` inside `from`
relative(from, to) == SubSeq(to, Len(from) + 1, Len(to))

excludedProjects == {"vendor"}

excludedFiles == {"debug.log"}

minimatch(p, pattern) == basename(p) = pattern

\* languageService.detectLanguage: by extension, 0 for unknown
detectLanguage(p) ==
  CASE basename(p) = "main.py" -> 3
    [] basename(p) = "scratch.js" -> 1
    [] basename(p) = "lib.js" -> 1
    [] OTHER -> 0

projectNameOf(d) ==
  IF getWorkspaceFolder(d) # NoFolder
    THEN basename(getWorkspaceFolder(d)) ELSE "unknown"

\* a predicate that does not look at the enabled setting
shouldTrackDocument_IgnoreEnabled(d, c, tracking) ==
  /\ d # NoDoc
  /\ ~isUntitled(d)
  /\ scheme(d) = "file"
  /\ ~(~c.autoTrackEnabled /\ ~tracking)
  /\ projectNameOf(d) \notin excludedProjects
  /\ \A pat \in excludedFiles : ~minimatch(fsPath(d), pat)

shouldTrackDocument(d, c, tracking) ==
  /\ d # NoDoc
  /\ ~isUntitled(d)
  /\ scheme(d) = "file"
  /\ c.enabled
  /\ ~(~c.autoTrackEnabled /\ ~tracking)
  /\ projectNameOf(d) \notin excludedProjects
  /\ \A pat \in excludedFiles : ~minimatch(fsPath(d), pat)

(***************************************************************************)
(* Date.toISOString: the instant as a string, to the millisecond.          *)
(***************************************************************************)
toISOString(t) == <<"iso", t>>

parseISO(str) == str[2]

(***************************************************************************)
(* Date in local time.  An instant is its milliseconds since the epoch;    *)
(* the local calendar is the UTC one shifted by timezoneOffset (a zone     *)
(* without daylight-saving changes).  1 January 1970 was a Thursday.       *)
(***************************************************************************)
DayMs == 86400000

EpochWeekday == 4

\* the local calendar day an instant falls on, counted from the epoch
localDay(t) == (t + timezoneOffset) \div DayMs

\* Date.getDay: 0 for Sunday .. 6 for Saturday
getDay(t) == (localDay(t) + EpochWeekday) % 7

\* result.setDate(result.getDate() + diff): the same local time, diff days on
addDate(t, diff) == t + diff * DayMs

\* Date.setHours(h, m, s, ms): that time on the same local day
setHours(t, h, m, s, ms) ==
  localDay(t) * DayMs - timezoneOffset
    + ((h * 60 + m) * 60 + s) * MsPerSecond + ms

(***************************************************************************)
(* ApiService: the week start used by the grouping, and the grouping.      *)
(***************************************************************************)
getWeekStart_SundayForward(date) ==
  LET day == getDay(date)
      diff == 1 - day
  IN setHours(addDate(date, diff), 0, 0, 0, 0)

getWeekStart(date) ==
  LET day == getDay(date)
      diff == IF day = 0 THEN 0 - 6 ELSE 1 - day
  IN setHours(addDate(date, diff), 0, 0, 0, 0)

groupKey(session) ==
  <<session.language_id,
    toISOString(getWeekStart(parseISO(session.start_time)))>>

\* index of the group with this key in the map, 0 when there is none
RECURSIVE groupIndex(_, _, _)
groupIndex(groups, key, from) ==
  IF from > Len(groups) THEN 0
  ELSE IF groups[from].key = key THEN from
  ELSE groupIndex(groups, key, from + 1)

\* one pass of the loop body, which overwrites end_time by every member's
groupAdd_LastEnd(groups, session) ==
  LET key == groupKey(session)
      fresh == [key |-> key,
                language_id |-> session.language_id,
                start_time |-> key[2],
                end_time |-> session.end_time,
                duration |-> 0,
                project_name |-> "Unknown",
                file_path |-> ""]
      map == IF groupIndex(groups, key, 1) = 0
               THEN Append(groups, fresh) ELSE groups
      g == groupIndex(map, key, 1)
  IN [map EXCEPT ![g].duration = @ + session.duration,
                 ![g].end_time = session.end_time]

\* one pass of the loop body, which assigns the duration instead of adding
groupAdd_Overwrite(groups, session) ==
  LET key == groupKey(session)
      fresh == [key |-> key,
                language_id |-> session.language_id,
                start_time |-> key[2],
                end_time |-> session.end_time,
                duration |-> 0,
                project_name |-> "Unknown",
                file_path |-> ""]
      map == IF groupIndex(groups, key, 1) = 0
               THEN Append(groups, fresh) ELSE groups
      g == groupIndex(map, key, 1)
  IN [map EXCEPT ![g].duration = session.duration,
                 ![g].end_time =
                    IF parseISO(session.end_time) > parseISO(@)
                      THEN session.end_time ELSE @]

\* one pass of the loop body
groupAdd(groups, session) ==
  LET key == groupKey(session)
      fresh == [key |-> key,
                language_id |-> session.language_id,
                start_time |-> key[2],
                end_time |-> session.end_time,
                duration |-> 0,
                project_name |-> "Unknown",
                file_path |-> ""]
      map == IF groupIndex(groups, key, 1) = 0
               THEN Append(groups, fresh) ELSE groups
      g == groupIndex(map, key, 1)
  IN [map EXCEPT ![g].duration = @ + session.duration,
                 ![g].end_time =
                    IF parseISO(session.end_time) > parseISO(@)
                      THEN session.end_time ELSE @]

RECURSIVE groupFrom(_, _, _)
groupFrom(groups, list, from) ==
  IF from > Len(list) THEN groups
  ELSE groupFrom(groupAdd(groups, list[from]), list, from + 1)

groupSessionsByLanguage(list) ==
  IF Len(list) = 0 THEN <<>> ELSE groupFrom(<<>>, list, 1)

\* sendOfflineSessions: the sessions in the format of the API
formattedSessions(sessionsToSend) ==
  [j \in 1..Len(sessionsToSend) |->
     [language_id |-> sessionsToSend[j].language,
      start_time |-> sessionsToSend[j].startTime,
      end_time |-> sessionsToSend[j].endTime,
      duration |-> sessionsToSend[j].duration]]

\* sendBatchSessions: what a drain posts to the sink for its batch
sendBatchSessions(formatted) == groupSessionsByLanguage(formatted)

(***************************************************************************)
(* Utils: the week bounds used by the summaries.                           *)
(***************************************************************************)
Utils_getWeekStart(date) ==
  LET day == getDay(date)
      diff == IF day = 0 THEN 0 - 6 ELSE 1 - day
  IN setHours(addDate(date, diff), 0, 0, 0, 0)

Utils_getWeekEnd(date) ==
  setHours(addDate(Utils_getWeekStart(date), 6), 23, 59, 59, 999)

(***************************************************************************)
(* The tracker's session state as a value, so that a handler's calls of    *)
(* startSession and endSession compose.                                    *)
(***************************************************************************)
Tracker ==
  [active |-> activeSession, sessions |-> sessions, inflight |-> inflight,
   stats |-> stats]

NoStats == [attempts |-> 0, accepted |-> 0, appended |-> 0, batched |-> 0]

\* sendSession's payload
sessionData(s) ==
  [language_id |-> s.language, start_time |-> toISOString(s.startTime),
   end_time |-> toISOString(s.endTime), duration |-> s.duration]

\* saveSession up to its await: the request is issued
saveSession(T, id) ==
  [T EXCEPT !.inflight = @ \cup {id}, !.stats[id].attempts = @ + 1]

floorSeconds(ms) == ms \div MsPerSecond

endSession_NoFilter(T) ==
  IF T.active = NoSession THEN T
  ELSE LET id == T.active
           s == T.sessions[id]
           closed == [s EXCEPT !.endTime = now,
                               !.duration = floorSeconds(now - s.startTime)]
           T1 == [T EXCEPT !.sessions[id] = closed]
       IN [saveSession(T1, id) EXCEPT !.active = NoSession]

endSession_Ceil(T) ==
  IF T.active = NoSession THEN T
  ELSE LET id == T.active
           s == T.sessions[id]
           closed == [s EXCEPT !.endTime = now,
                        !.duration = floorSeconds(now - s.startTime
                                                  + MsPerSecond - 1)]
           T1 == [T EXCEPT !.sessions[id] = closed]
           T2 == IF closed.duration >= config.minSessionDuration
                   THEN saveSession(T1, id) ELSE T1
       IN [T2 EXCEPT !.active = NoSession]

endSession(T) ==
  IF T.active = NoSession THEN T
  ELSE LET id == T.active
           s == T.sessions[id]
           closed == [s EXCEPT !.endTime = now,
                               !.duration = floorSeconds(now - s.startTime)]
           T1 == [T EXCEPT !.sessions[id] = closed]
           T2 == IF closed.duration >= config.minSessionDuration
                   THEN saveSession(T1, id) ELSE T1
       IN [T2 EXCEPT !.active = NoSession]

newSession(id, d) ==
  [id |-> id,
   doc |-> d,
   language |-> detectLanguage(fsPath(d)),
   projectName |-> projectNameOf(d),
   filePath |-> IF getWorkspaceFolder(d) # NoFolder
                  THEN relative(getWorkspaceFolder(d), fsPath(d))
                  ELSE fsPath(d),
   startTime |-> now,
   endTime |-> Null,
   duration |-> 0]

startSession_NoEnd(T, d) ==
  LET id == Len(T.sessions) + 1
  IN [T EXCEPT !.sessions = Append(@, newSession(id, d)),
               !.stats = Append(@, NoStats),
               !.active = id]

\* a start that reopens the last session when it was on the same document
startSession_Reopen(T, d) ==
  LET T1 == IF T.active # NoSession THEN endSession(T) ELSE T
      n == Len(T1.sessions)
      id == n + 1
  IN IF n > 0 /\ T1.sessions[n].doc = d
       THEN [T1 EXCEPT !.sessions[n].endTime = Null,
                       !.sessions[n].duration = 0,
                       !.active = n]
       ELSE [T1 EXCEPT !.sessions = Append(@, newSession(id, d)),
                       !.stats = Append(@, NoStats),
                       !.active = id]

startSession(T, d) ==
  LET T1 == IF T.active # NoSession THEN endSession(T) ELSE T
      id == Len(T1.sessions) + 1
  IN [T1 EXCEPT !.sessions = Append(@, newSession(id, d)),
                !.stats = Append(@, NoStats),
                !.active = id]

\* the handler's result becomes the state; the model holds MaxSessions sessions
SetTracker(T) ==
  /\ Len(T.sessions) <= MaxSessions
  /\ activeSession' = T.active
  /\ sessions' = T.sessions
  /\ inflight' = T.inflight
  /\ stats' = T.stats

(***************************************************************************)
(* startTracking and stopTracking, as the effect on the tracker.           *)
(***************************************************************************)
startTracking_NoKeyCheck(c) ==
  IF isTracking THEN UNCHANGED trackVars
  ELSE /\ isTracking' = TRUE
       /\ lastActivityTime' = now
       /\ activityCheckInterval' = c.idleThreshold
       /\ uploadInterval' = TRUE
       /\ SetTracker(IF shouldTrackDocument(activeEditor, c, TRUE)
                       THEN startSession(Tracker, activeEditor)
                       ELSE Tracker)

startTracking(c) ==
  IF isTracking \/ ~c.apiKey THEN UNCHANGED trackVars
  ELSE /\ isTracking' = TRUE
       /\ lastActivityTime' = now
       /\ activityCheckInterval' = c.idleThreshold
       /\ uploadInterval' = TRUE
       /\ SetTracker(IF shouldTrackDocument(activeEditor, c, TRUE)
                       THEN startSession(Tracker, activeEditor)
                       ELSE Tracker)

\* a stop that leaves the open session running
stopTracking_KeepSession ==
  IF ~isTracking THEN UNCHANGED trackVars
  ELSE /\ isTracking' = FALSE
       /\ activityCheckInterval' = Null
       /\ uploadInterval' = FALSE
       /\ UNCHANGED <<activeSession, sessions, inflight, stats,
                      lastActivityTime>>

\* a stop that leaves both intervals armed
stopTracking_KeepTimers ==
  IF ~isTracking THEN UNCHANGED trackVars
  ELSE /\ isTracking' = FALSE
       /\ SetTracker(endSession(Tracker))
       /\ UNCHANGED <<activityCheckInterval, uploadInterval,
                      lastActivityTime>>

stopTracking ==
  IF ~isTracking THEN UNCHANGED trackVars
  ELSE /\ isTracking' = FALSE
       /\ activityCheckInterval' = Null
       /\ uploadInterval' = FALSE
       /\ SetTracker(endSession(Tracker))
       /\ UNCHANGED lastActivityTime

(***************************************************************************)
(* The offline queue (StorageService).                                     *)
(***************************************************************************)
Min(a, b) == IF a < b THEN a ELSE b

Max(a, b) == IF a > b THEN a ELSE b

\* the record addOfflineSession stores
\* a stored record that keeps the session's path
storedSession_WithPath(s) ==
  [id |-> s.id, language |-> s.language,
   startTime |-> toISOString(s.startTime),
   endTime |-> toISOString(s.endTime), duration |-> s.duration,
   filePath |-> s.filePath]

storedSession(s) ==
  [id |-> s.id, language |-> s.language,
   startTime |-> toISOString(s.startTime),
   endTime |-> toISOString(s.endTime), duration |-> s.duration]

\* a queue kept in the order in which the sessions were closed
RECURSIVE addOfflineSession_ByCloseOrder(_, _)
addOfflineSession_ByCloseOrder(q, s) ==
  IF q = <<>> \/ q[Len(q)].id < s.id
    THEN Append(q, storedSession(s))
    ELSE Append(addOfflineSession_ByCloseOrder(SubSeq(q, 1, Len(q) - 1), s),
                q[Len(q)])

addOfflineSession_Front(q, s) == <<storedSession(s)>> \o q

addOfflineSession(q, s) == Append(q, storedSession(s))

getOfflineSessions(q, limit) == SubSeq(q, 1, Min(limit, Len(q)))

getOfflineSessionCount(q) == Len(q)

hasOfflineSessions(q) == getOfflineSessionCount(q) > 0

\* a removal that drops the newest entries
removeOfflineSessions_Tail(q, count) ==
  SubSeq(q, 1, Max(Len(q) - count, 0))

removeOfflineSessions_All(q, count) == <<>>

removeOfflineSessions(q, count) == SubSeq(q, count + 1, Len(q))

thresholds == {10, 50, 100, 500}

\* a threshold test by "at least" instead of exact match
maybeTriggerOfflineWarning_AtLeast(count) ==
  IF \E t \in thresholds : count >= t
    THEN Append(warnings, count) ELSE warnings

maybeTriggerOfflineWarning(count) ==
  IF count \in thresholds THEN Append(warnings, count) ELSE warnings

(***************************************************************************)
(* sendOfflineSessions, up to its await of the batch send.                 *)
(***************************************************************************)
\* thresholds compared with >= instead of >
batchSizeFor_Inclusive(total) ==
  IF total >= BatchThreshold2 THEN BatchSize2
  ELSE IF total >= BatchThreshold1 THEN BatchSize1
  ELSE config.uploadBatchSize

batchSizeFor(total) ==
  IF total > BatchThreshold2 THEN BatchSize2
  ELSE IF total > BatchThreshold1 THEN BatchSize1
  ELSE config.uploadBatchSize

canDrain_NoGuard == hasOfflineSessions(queue)

canDrain == hasOfflineSessions(queue) /\ ~pendingUpload

startVars == <<pendingUpload, drains>>

drainRest == <<uploadRetryCount, timeouts, failStreak>>

\* the early return for a missing key leaves pendingUpload set
sendOfflineSessions_KeepGuard(key) ==
  IF ~canDrain THEN UNCHANGED startVars
  ELSE IF ~key
    THEN pendingUpload' = TRUE /\ UNCHANGED drains
  ELSE LET total == getOfflineSessionCount(queue)
           batchSize == batchSizeFor(total)
           sessionsToSend == getOfflineSessions(queue, batchSize)
       IN IF Len(sessionsToSend) = 0
            THEN pendingUpload' = FALSE /\ UNCHANGED drains
            ELSE /\ Len(drains) < MaxDrains
                 /\ pendingUpload' = TRUE
                 /\ drains' = Append(drains,
                      [pc |-> "sending", batch |-> sessionsToSend,
                       total |-> total, batchSize |-> batchSize])

sendOfflineSessions(key) ==
  IF ~canDrain THEN UNCHANGED startVars
  ELSE IF ~key
    THEN pendingUpload' = FALSE /\ UNCHANGED drains
  ELSE LET total == getOfflineSessionCount(queue)
           batchSize == batchSizeFor(total)
           sessionsToSend == getOfflineSessions(queue, batchSize)
       IN IF Len(sessionsToSend) = 0
            THEN pendingUpload' = FALSE /\ UNCHANGED drains
            ELSE /\ Len(drains) < MaxDrains
                 /\ pendingUpload' = TRUE
                 /\ drains' = Append(drains,
                      [pc |-> "sending", batch |-> sessionsToSend,
                       total |-> total, batchSize |-> batchSize])

RemoveAt(seq, i) == SubSeq(seq, 1, i - 1) \o SubSeq(seq, i + 1, Len(seq))

RECURSIVE Pow2(_)
Pow2(n) == IF n = 0 THEN 1 ELSE 2 * Pow2(n - 1)

backoffDelay_FromOne(count) == BackoffBase * Pow2(count - 1)

backoffDelay(count) == BackoffBase * Pow2(count)

\* the short delay from 1000 records on
nextBatchDelay_Inclusive(total) ==
  Min(Max(FastDelay, IF total >= FastDelayThreshold THEN FastDelay
                     ELSE SlowDelay), MaxDelay)

nextBatchDelay(total) ==
  Min(Max(FastDelay, IF total > FastDelayThreshold THEN FastDelay
                     ELSE SlowDelay), MaxDelay)

setTimeout(delay) ==
  /\ BagCardinality(timeouts) < MaxTimeouts
  /\ timeouts' = timeouts (+) SetToBag({delay})

(***************************************************************************)
(* Initial state: the module is loaded, activate() has not run yet.        *)
(***************************************************************************)
InitSettings(q, batchSize, offsets, editors, idleThresholds, minDurations) ==
  /\ now = 0
  /\ activated = FALSE
  /\ config \in [apiKey : BOOLEAN, enabled : {TRUE},
                  autoTrackEnabled : {TRUE},
                  idleThreshold : idleThresholds,
                  minSessionDuration : minDurations,
                  uploadBatchSize : {batchSize}]
  /\ activeEditor \in editors
  /\ timezoneOffset \in offsets
  /\ isTracking = FALSE
  /\ activeSession = NoSession
  /\ lastActivityTime = Null
  /\ activityCheckInterval = Null
  /\ uploadInterval = FALSE
  /\ sessions = <<>>
  /\ inflight = {}
  /\ queue = q
  /\ pendingUpload = FALSE
  /\ uploadRetryCount = 0
  /\ drains = <<>>
  /\ timeouts = EmptyBag
  /\ stats = <<>>
  /\ warnings = <<>>
  /\ enqueueLog = <<>>
  /\ lastFailed = <<>>
  /\ idleClosed = {}
  /\ restarts = 0
  /\ failStreak = 0

\* the settings the model runs with
InitFull(q, batchSize, offsets, editors) ==
  InitSettings(q, batchSize, offsets, editors, {ModelIdleThreshold},
               {ModelMinSessionDuration})

\* no editor is active when the module is loaded
InitWith(q, batchSize, offsets) == InitFull(q, batchSize, offsets, {NoDoc})

\* a host on UTC
InitState(q, batchSize) == InitWith(q, batchSize, {0})

\* a fresh installation: nothing stored
Init == InitState(<<>>, ModelBatchSize)

\* the j-th of n records stored by earlier runs: one second each, ids below 0
priorRecord(j, n) ==
  [id |-> 0 - j, language |-> 1,
   startTime |-> toISOString((j - n - 1) * MsPerSecond),
   endTime |-> toISOString((j - n) * MsPerSecond), duration |-> 1]

Backlog(n) == [j \in 1..n |-> priorRecord(j, n)]

\* a backlog in the store, a batch size set for it, and a credential
BacklogInit ==
  /\ InitState(Backlog(BacklogSize), BacklogBatchSize)
  /\ config.apiKey

(***************************************************************************)
(* The clock.                                                              *)
(***************************************************************************)
Tick(step, cap) ==
  /\ now + step <= cap
  /\ now' = now + step
  /\ UNCHANGED <<activated, configVars, trackVars, queue, drainVars, hist>>

(***************************************************************************)
(* activate(): start tracking if enabled, then try to drain.               *)
(***************************************************************************)
\* an activation that leaves the stored sessions to the periodic timer
Activate_NoDrain ==
  /\ ~activated
  /\ activated' = TRUE
  /\ IF config.enabled THEN startTracking(config) ELSE UNCHANGED trackVars
  /\ UNCHANGED <<pendingUpload, drains>>
  /\ UNCHANGED <<now, configVars, queue, drainRest, hist>>

Activate ==
  /\ ~activated
  /\ activated' = TRUE
  /\ IF config.enabled THEN startTracking(config) ELSE UNCHANGED trackVars
  /\ sendOfflineSessions(config.apiKey)
  /\ UNCHANGED <<now, configVars, queue, drainRest, hist>>

(***************************************************************************)
(* Commands.                                                               *)
(***************************************************************************)
StartCommand ==
  /\ activated
  /\ startTracking(config)
  /\ UNCHANGED <<now, activated, configVars, queue, drainVars, hist>>

StopCommand ==
  /\ activated
  /\ stopTracking
  /\ UNCHANGED <<now, activated, configVars, queue, drainVars, hist>>

\* toggleTracking: the setting is written, then tracking starts or stops
ToggleTracking ==
  /\ activated
  /\ config' = [config EXCEPT !.enabled = ~@]
  /\ IF ~config.enabled
       THEN startTracking([config EXCEPT !.enabled = TRUE])
       ELSE stopTracking
  /\ UNCHANGED <<now, activated, activeEditor, timezoneOffset, queue,
                 drainVars, hist>>

\* setApiKey with a key the service validates: saved, then a drain is tried
SetApiKey ==
  /\ activated
  /\ config' = [config EXCEPT !.apiKey = TRUE]
  /\ sendOfflineSessions(TRUE)
  /\ UNCHANGED <<now, activated, activeEditor, timezoneOffset, trackVars,
                 queue, drainRest,
                 hist>>

\* the user removes the key in the settings
ClearApiKey ==
  /\ activated
  /\ config.apiKey
  /\ config' = [config EXCEPT !.apiKey = FALSE]
  /\ UNCHANGED <<now, activated, activeEditor, timezoneOffset, trackVars,
                 queue, drainVars,
                 hist>>

(***************************************************************************)
(* Editor and window events.                                               *)
(***************************************************************************)
\* a handler that moves the session to the changed document
OnDocumentChange_Switch(d) ==
  /\ activated
  /\ IF ~isTracking THEN UNCHANGED trackVars
     ELSE /\ lastActivityTime' = now
          /\ SetTracker(IF /\ shouldTrackDocument(d, config, isTracking)
                           /\ \/ activeSession = NoSession
                              \/ sessions[activeSession].doc # d
                          THEN startSession(Tracker, d)
                          ELSE Tracker)
          /\ UNCHANGED <<isTracking, activityCheckInterval, uploadInterval>>
  /\ UNCHANGED <<now, activated, configVars, queue, drainVars, hist>>

OnDocumentChange(d) ==
  /\ activated
  /\ IF ~isTracking THEN UNCHANGED trackVars
     ELSE /\ lastActivityTime' = now
          /\ SetTracker(IF /\ activeSession = NoSession
                           /\ shouldTrackDocument(d, config, isTracking)
                          THEN startSession(Tracker, d)
                          ELSE Tracker)
          /\ UNCHANGED <<isTracking, activityCheckInterval, uploadInterval>>
  /\ UNCHANGED <<now, activated, configVars, queue, drainVars, hist>>

\* the active editor becomes e (NoDoc: no editor is active)
\* an editor-change handler that opens the session without asking the
\* predicate
OnEditorChange_NoCheck(e) ==
  /\ activated
  /\ activeEditor' = e
  /\ IF ~isTracking \/ e = NoDoc THEN UNCHANGED trackVars
     ELSE /\ lastActivityTime' = now
          /\ LET T1 == IF activeSession # NoSession
                         THEN endSession(Tracker) ELSE Tracker
             IN SetTracker(startSession(T1, e))
          /\ UNCHANGED <<isTracking, activityCheckInterval, uploadInterval>>
  /\ UNCHANGED <<now, activated, config, timezoneOffset, queue, drainVars,
                 hist>>

OnEditorChange(e) ==
  /\ activated
  /\ activeEditor' = e
  /\ IF ~isTracking \/ e = NoDoc THEN UNCHANGED trackVars
     ELSE /\ lastActivityTime' = now
          /\ LET T1 == IF activeSession # NoSession
                         THEN endSession(Tracker) ELSE Tracker
             IN SetTracker(IF shouldTrackDocument(e, config, isTracking)
                             THEN startSession(T1, e) ELSE T1)
          /\ UNCHANGED <<isTracking, activityCheckInterval, uploadInterval>>
  /\ UNCHANGED <<now, activated, config, timezoneOffset, queue, drainVars,
                 hist>>

\* a focus-gained handler that restarts the session whenever the editor is
\* trackable
OnWindowStateChange_Restart(focused) ==
  /\ activated
  /\ IF ~isTracking THEN UNCHANGED trackVars
     ELSE IF focused
       THEN /\ lastActivityTime' = now
            /\ SetTracker(
                 IF shouldTrackDocument(activeEditor, config, isTracking)
                   THEN startSession(Tracker, activeEditor)
                   ELSE Tracker)
            /\ UNCHANGED <<isTracking, activityCheckInterval, uploadInterval>>
       ELSE /\ SetTracker(IF activeSession # NoSession
                            THEN endSession(Tracker) ELSE Tracker)
            /\ UNCHANGED <<isTracking, lastActivityTime,
                           activityCheckInterval, uploadInterval>>
  /\ UNCHANGED <<now, activated, configVars, queue, drainVars, hist>>

OnWindowStateChange(focused) ==
  /\ activated
  /\ IF ~isTracking THEN UNCHANGED trackVars
     ELSE IF focused
       THEN /\ lastActivityTime' = now
            /\ SetTracker(
                 IF /\ activeSession = NoSession
                    /\ shouldTrackDocument(activeEditor, config, isTracking)
                   THEN startSession(Tracker, activeEditor)
                   ELSE Tracker)
            /\ UNCHANGED <<isTracking, activityCheckInterval, uploadInterval>>
       ELSE /\ SetTracker(IF activeSession # NoSession
                            THEN endSession(Tracker) ELSE Tracker)
            /\ UNCHANGED <<isTracking, lastActivityTime,
                           activityCheckInterval, uploadInterval>>
  /\ UNCHANGED <<now, activated, configVars, queue, drainVars, hist>>

\* toggleAutoTracking: the setting is written, then a session starts or ends
\* a toggle that starts the session whether or not tracking is on
ToggleAutoTracking_NoGuard ==
  /\ activated
  /\ config' = [config EXCEPT !.autoTrackEnabled = ~@]
  /\ IF ~config.autoTrackEnabled
       THEN SetTracker(
              IF shouldTrackDocument(activeEditor,
                   [config EXCEPT !.autoTrackEnabled = TRUE], isTracking)
                THEN startSession(Tracker, activeEditor)
                ELSE Tracker)
       ELSE SetTracker(IF activeSession # NoSession
                         THEN endSession(Tracker) ELSE Tracker)
  /\ UNCHANGED <<now, activated, activeEditor, timezoneOffset, isTracking,
                 lastActivityTime, activityCheckInterval, uploadInterval,
                 queue, drainVars, hist>>

ToggleAutoTracking ==
  /\ activated
  /\ config' = [config EXCEPT !.autoTrackEnabled = ~@]
  /\ IF ~config.autoTrackEnabled
       THEN SetTracker(
              IF /\ isTracking
                 /\ shouldTrackDocument(activeEditor,
                      [config EXCEPT !.autoTrackEnabled = TRUE], isTracking)
                THEN startSession(Tracker, activeEditor)
                ELSE Tracker)
       ELSE SetTracker(IF activeSession # NoSession
                         THEN endSession(Tracker) ELSE Tracker)
  /\ UNCHANGED <<now, activated, activeEditor, timezoneOffset, isTracking,
                 lastActivityTime, activityCheckInterval, uploadInterval,
                 queue, drainVars, hist>>

(***************************************************************************)
(* The idle check, every 10 s while tracking.                              *)
(***************************************************************************)
\* a check that allows one more period of idleness
idleTooLong_OnePeriodMore(last, idleThresholdSeconds) ==
  now - last > idleThresholdSeconds * MsPerSecond + IdleCheckPeriod

idleTooLong_AtThreshold(last, idleThresholdSeconds) ==
  now - last >= idleThresholdSeconds * MsPerSecond

idleTooLong(last, idleThresholdSeconds) ==
  now - last > idleThresholdSeconds * MsPerSecond

checkActivity(idleThresholdSeconds) ==
  IF activeSession = NoSession \/ lastActivityTime = Null
    THEN UNCHANGED trackVars
    ELSE /\ SetTracker(IF idleTooLong(lastActivityTime, idleThresholdSeconds)
                         THEN endSession(Tracker) ELSE Tracker)
         /\ UNCHANGED <<isTracking, lastActivityTime, activityCheckInterval,
                        uploadInterval>>

IdleCheckTick ==
  /\ activityCheckInterval # Null
  /\ checkActivity(activityCheckInterval)
  /\ idleClosed' = IF activeSession' # activeSession
                     THEN idleClosed \cup {activeSession} ELSE idleClosed
  /\ UNCHANGED <<now, activated, configVars, queue, drainVars, warnings,
                 enqueueLog, lastFailed, restarts>>

(***************************************************************************)
(* The immediate send of a closed session completes (saveSession after its *)
(* await).  The sink either accepts the record or the send fails.          *)
(***************************************************************************)
\* a handler that also queues what the sink accepted
SendSessionOk_AlsoQueue(id) ==
  /\ id \in inflight
  /\ inflight' = inflight \ {id}
  /\ queue' = addOfflineSession(queue, sessions[id])
  /\ warnings' = maybeTriggerOfflineWarning(getOfflineSessionCount(queue'))
  /\ stats' = [stats EXCEPT ![id].accepted = @ + 1, ![id].appended = @ + 1]
  /\ enqueueLog' = Append(enqueueLog, id)
  /\ UNCHANGED <<now, activated, configVars, isTracking, activeSession,
                 lastActivityTime, activityCheckInterval, uploadInterval,
                 sessions, drainVars, lastFailed, idleClosed, restarts>>

SendSessionOk(id) ==
  /\ id \in inflight
  /\ inflight' = inflight \ {id}
  /\ stats' = [stats EXCEPT ![id].accepted = @ + 1]
  /\ UNCHANGED <<now, activated, configVars, isTracking, activeSession,
                 lastActivityTime, activityCheckInterval, uploadInterval,
                 sessions, queue, drainVars, hist>>

SendSessionFail(id) ==
  /\ id \in inflight
  /\ inflight' = inflight \ {id}
  /\ queue' = addOfflineSession(queue, sessions[id])
  /\ warnings' = maybeTriggerOfflineWarning(getOfflineSessionCount(queue'))
  /\ stats' = [stats EXCEPT ![id].appended = @ + 1]
  /\ enqueueLog' = Append(enqueueLog, id)
  /\ UNCHANGED <<now, activated, configVars, isTracking, activeSession,
                 lastActivityTime, activityCheckInterval, uploadInterval,
                 sessions, drainVars, lastFailed, idleClosed, restarts>>

(***************************************************************************)
(* What calls sendOfflineSessions besides activate and setApiKey.          *)
(***************************************************************************)
UploadIntervalTick ==
  /\ uploadInterval
  /\ sendOfflineSessions(config.apiKey)
  /\ UNCHANGED <<now, activated, configVars, trackVars, queue, drainRest,
                 hist>>

TimeoutFire(delay) ==
  /\ BagIn(delay, timeouts)
  /\ timeouts' = timeouts (-) SetToBag({delay})
  /\ sendOfflineSessions(config.apiKey)
  /\ UNCHANGED <<uploadRetryCount, failStreak>>
  /\ UNCHANGED <<now, activated, configVars, trackVars, queue, hist>>

(***************************************************************************)
(* sendOfflineSessions after the batch send.                               *)
(***************************************************************************)
Occurrences(batch, id) == Cardinality({j \in 1..Len(batch) : batch[j].id = id})

\* the batch is accepted; removeOfflineSessions runs up to its await
BatchSendOk(i) ==
  /\ i \in 1..Len(drains)
  /\ drains[i].pc = "sending"
  /\ stats' = [k \in DOMAIN stats |->
                 [stats[k] EXCEPT !.batched = @ + Occurrences(drains[i].batch, k)]]
  /\ queue' = removeOfflineSessions(queue, Len(drains[i].batch))
  /\ drains' = [drains EXCEPT ![i].pc = "removing"]
  /\ lastFailed' = <<>>
  /\ UNCHANGED <<now, activated, configVars, isTracking, activeSession,
                 lastActivityTime, activityCheckInterval, uploadInterval,
                 sessions, inflight, pendingUpload, uploadRetryCount,
                 timeouts, failStreak, warnings, enqueueLog,
                 idleClosed, restarts>>

\* a success path that forgets to reset the retry counter
DrainFinish_NoReset(i) ==
  /\ i \in 1..Len(drains)
  /\ drains[i].pc = "removing"
  /\ IF hasOfflineSessions(queue)
       THEN setTimeout(nextBatchDelay(drains[i].total))
       ELSE UNCHANGED timeouts
  /\ UNCHANGED <<uploadRetryCount, failStreak>>
  /\ pendingUpload' = FALSE
  /\ drains' = RemoveAt(drains, i)
  /\ UNCHANGED <<now, activated, configVars, trackVars, queue, hist>>

\* the rest of the try block, and finally
DrainFinish(i) ==
  /\ i \in 1..Len(drains)
  /\ drains[i].pc = "removing"
  /\ IF hasOfflineSessions(queue)
       THEN setTimeout(nextBatchDelay(drains[i].total))
       ELSE UNCHANGED timeouts
  /\ uploadRetryCount' = 0
  /\ failStreak' = 0
  /\ pendingUpload' = FALSE
  /\ drains' = RemoveAt(drains, i)
  /\ UNCHANGED <<now, activated, configVars, trackVars, queue, hist>>

\* the batch send fails: the catch block, and finally
\* a catch block that counts every failure
BatchSendFail_NoCap(i) ==
  /\ i \in 1..Len(drains)
  /\ drains[i].pc = "sending"
  /\ uploadRetryCount' = uploadRetryCount + 1
  /\ setTimeout(backoffDelay(uploadRetryCount + 1))
  /\ failStreak' = failStreak + 1
  /\ pendingUpload' = FALSE
  /\ drains' = RemoveAt(drains, i)
  /\ lastFailed' = drains[i].batch
  /\ UNCHANGED <<now, activated, configVars, trackVars, queue, warnings,
                 enqueueLog, idleClosed, restarts>>

BatchSendFail(i) ==
  /\ i \in 1..Len(drains)
  /\ drains[i].pc = "sending"
  /\ IF uploadRetryCount < RetryCap
       THEN /\ uploadRetryCount' = uploadRetryCount + 1
            /\ setTimeout(backoffDelay(uploadRetryCount + 1))
            /\ failStreak' = failStreak + 1
       ELSE /\ uploadRetryCount' = 0
            /\ failStreak' = 0
            /\ UNCHANGED timeouts
  /\ pendingUpload' = FALSE
  /\ drains' = RemoveAt(drains, i)
  /\ lastFailed' = drains[i].batch
  /\ UNCHANGED <<now, activated, configVars, trackVars, queue, warnings,
                 enqueueLog, idleClosed, restarts>>

(***************************************************************************)
(* The whole system: every event, every outcome of every send.             *)
(***************************************************************************)
Next ==
  \/ Tick(FineStep, TrackerMaxTime)
  \/ Activate
  \/ StartCommand
  \/ StopCommand
  \/ ToggleTracking
  \/ ToggleAutoTracking
  \/ SetApiKey
  \/ ClearApiKey
  \/ \E d \in Docs : OnDocumentChange(d)
  \/ \E e \in Docs \cup {NoDoc} : OnEditorChange(e)
  \/ \E focused \in BOOLEAN : OnWindowStateChange(focused)
  \/ IdleCheckTick
  \/ \E id \in inflight : SendSessionOk(id)
  \/ \E id \in inflight : SendSessionFail(id)
  \/ UploadIntervalTick
  \/ \E delay \in BagToSet(timeouts) : TimeoutFire(delay)
  \/ \E i \in 1..Len(drains) : BatchSendOk(i)
  \/ \E i \in 1..Len(drains) : DrainFinish(i)
  \/ \E i \in 1..Len(drains) : BatchSendFail(i)

Spec == Init /\ [][Next]_vars

(***************************************************************************)
(* The session tracker under every editor event, command and setting,      *)
(* with a sink that accepts every immediate send (the queue stays empty).  *)
(***************************************************************************)
TrackerNext ==
  \/ Tick(FineStep, TrackerMaxTime)
  \/ Activate
  \/ StartCommand
  \/ StopCommand
  \/ ToggleTracking
  \/ ToggleAutoTracking
  \/ SetApiKey
  \/ ClearApiKey
  \/ \E d \in Docs : OnDocumentChange(d)
  \/ \E e \in Docs \cup {NoDoc} : OnEditorChange(e)
  \/ \E focused \in BOOLEAN : OnWindowStateChange(focused)
  \/ IdleCheckTick
  \/ \E id \in inflight : SendSessionOk(id)

SpecTracker == Init /\ [][TrackerNext]_vars

(***************************************************************************)
(* The delivery path under every outcome of every send and every timer,    *)
(* with one document in the editor.                                        *)
(***************************************************************************)
DeliveryNext ==
  \/ Tick(CoarseStep, DeliveryMaxTime)
  \/ Activate
  \/ StartCommand
  \/ StopCommand
  \/ SetApiKey
  \/ ClearApiKey
  \/ OnEditorChange("main")
  \/ OnWindowStateChange(FALSE)
  \/ \E id \in inflight : SendSessionOk(id)
  \/ \E id \in inflight : SendSessionFail(id)
  \/ UploadIntervalTick
  \/ \E delay \in BagToSet(timeouts) : TimeoutFire(delay)
  \/ \E i \in 1..Len(drains) : BatchSendOk(i)
  \/ \E i \in 1..Len(drains) : DrainFinish(i)
  \/ \E i \in 1..Len(drains) : BatchSendFail(i)

SpecDelivery == Init /\ [][DeliveryNext]_vars

(***************************************************************************)
(* The delivery path started on a backlog: the sessions of this run join   *)
(* a queue that earlier runs left in the store.                            *)
(***************************************************************************)
BacklogNext ==
  \/ Tick(CoarseStep, DeliveryMaxTime)
  \/ Activate
  \/ OnEditorChange("main")
  \/ \E id \in inflight : SendSessionOk(id)
  \/ \E id \in inflight : SendSessionFail(id)
  \/ UploadIntervalTick
  \/ \E delay \in BagToSet(timeouts) : TimeoutFire(delay)
  \/ \E i \in 1..Len(drains) : BatchSendOk(i)
  \/ \E i \in 1..Len(drains) : DrainFinish(i)
  \/ \E i \in 1..Len(drains) : BatchSendFail(i)

SpecBacklog == BacklogInit /\ [][BacklogNext]_vars

(***************************************************************************)
(* Drains alone, started on backlogs around the batch-size thresholds,     *)
(* with configured batch sizes below, between and above the escalated      *)
(* sizes.                                                                  *)
(***************************************************************************)
StartCounts == {100, 101, 120, 500, 501}

BaseSizes == {10, 80, 120}

SizesInit ==
  \E n \in StartCounts, b \in BaseSizes :
    /\ InitState(Backlog(n), b)
    /\ config.apiKey

SizesNext ==
  \/ Activate
  \/ UploadIntervalTick
  \/ \E delay \in BagToSet(timeouts) : TimeoutFire(delay)
  \/ \E i \in 1..Len(drains) : BatchSendOk(i)
  \/ \E i \in 1..Len(drains) : DrainFinish(i)
  \/ \E i \in 1..Len(drains) : BatchSendFail(i)

SpecSizes == SizesInit /\ [][SizesNext]_vars

(***************************************************************************)
(* Grouping: drains of short queues whose sessions differ in language,     *)
(* week and duration, on hosts west of, on and east of UTC, with a sink    *)
(* that accepts.  The start times lie around a week boundary: Sunday 4     *)
(* January 1970 23:59:59.999, Monday 5 January 00:00:00.000 and Monday 12  *)
(* January 00:00:00.000, UTC.                                              *)
(***************************************************************************)
GroupLanguages == {1, 3}

GroupStarts == {4 * DayMs - 1, 4 * DayMs}

GroupDurations == {30, 45}

GroupChoices ==
  (GroupLanguages \X GroupStarts \X GroupDurations)
    \cup {<<1, 11 * DayMs, 30>>}

GroupOffsets == {0 - 3600000, 0, 3600000}

\* the j-th stored record, of language, start time and duration c
groupRecord(j, c) ==
  [id |-> 0 - j, language |-> c[1],
   startTime |-> toISOString(c[2]),
   endTime |-> toISOString(c[2] + c[3] * MsPerSecond), duration |-> c[3]]

GroupingInit ==
  \E n \in 1..GroupLen :
    \E f \in [1..n -> GroupChoices] :
      /\ InitWith([j \in 1..n |-> groupRecord(j, f[j])], GroupLen,
                  GroupOffsets)
      /\ config.apiKey

GroupingNext ==
  \/ Activate
  \/ \E i \in 1..Len(drains) : BatchSendOk(i)
  \/ \E i \in 1..Len(drains) : DrainFinish(i)

SpecGrouping == GroupingInit /\ [][GroupingNext]_vars

(***************************************************************************)
(* Week bounds: the drain of one session that started at midnight, at      *)
(* noon or in the last millisecond of one of fourteen consecutive days,    *)
(* on hosts west of, on and east of UTC.                                   *)
(***************************************************************************)
WeekDates ==
  {day * DayMs + time : day \in 0..13, time \in {0, DayMs \div 2, DayMs - 1}}

WeeksInit ==
  \E d \in WeekDates :
    /\ InitWith(<<groupRecord(1, <<1, d, 30>>)>>, GroupLen, GroupOffsets)
    /\ config.apiKey

SpecWeeks == WeeksInit /\ [][GroupingNext]_vars

(***************************************************************************)
(* Warnings: sessions whose immediate send fails join backlogs just below  *)
(* and at the warning thresholds, while one drain removes a batch.         *)
(***************************************************************************)
WarningCounts == {9, 12, 49, 99, 499}

WarningsInit ==
  \E n \in WarningCounts :
    /\ InitState(Backlog(n), ModelBatchSize)
    /\ config.apiKey

WarningsNext ==
  \/ Tick(CoarseStep, DeliveryMaxTime)
  \/ Activate
  \/ OnEditorChange("main")
  \/ \E id \in inflight : SendSessionOk(id)
  \/ \E id \in inflight : SendSessionFail(id)
  \/ \E i \in 1..Len(drains) : BatchSendOk(i)
  \/ \E i \in 1..Len(drains) : DrainFinish(i)

SpecWarnings == WarningsInit /\ [][WarningsNext]_vars

(***************************************************************************)
(* The tracker where sessions are opened only by startTracking and by      *)
(* focus-gained events: any editor may be active when the extension is     *)
(* activated, and the active editor changes only while tracking is off.    *)
(***************************************************************************)
StartEditors == Docs \cup {NoDoc}

StartInit == InitFull(<<>>, ModelBatchSize, {0}, StartEditors)

StartNext ==
  \/ Tick(FineStep, TrackerMaxTime)
  \/ Activate
  \/ StartCommand
  \/ StopCommand
  \/ ToggleTracking
  \/ SetApiKey
  \/ ClearApiKey
  \/ \E e \in StartEditors : ~isTracking /\ OnEditorChange(e)
  \/ \E focused \in BOOLEAN : OnWindowStateChange(focused)
  \/ IdleCheckTick
  \/ \E id \in inflight : SendSessionOk(id)

SpecStart == StartInit /\ [][StartNext]_vars

(***************************************************************************)
(* The delivery path together with the idle check: both timers of the      *)
(* tracker run beside the sends.                                           *)
(***************************************************************************)
StopNext ==
  \/ DeliveryNext
  \/ IdleCheckTick

SpecStop == Init /\ [][StopNext]_vars

(***************************************************************************)
(* Every way a session is opened, over every kind of document: project     *)
(* files, a file outside any workspace folder, an untitled document, an    *)
(* output channel, a file of an excluded project, a file matching an       *)
(* excluded pattern.  One second passes at most.                           *)
(***************************************************************************)
OpeningNext ==
  \/ Tick(CoarseStep, CoarseStep)
  \/ Activate
  \/ StartCommand
  \/ StopCommand
  \/ ToggleTracking
  \/ ToggleAutoTracking
  \/ SetApiKey
  \/ ClearApiKey
  \/ \E d \in MoreDocs : OnDocumentChange(d)
  \/ \E e \in MoreDocs \cup {NoDoc} : OnEditorChange(e)
  \/ \E focused \in BOOLEAN : OnWindowStateChange(focused)
  \/ \E id \in inflight : SendSessionOk(id)

SpecOpening == Init /\ [][OpeningNext]_vars

(***************************************************************************)
(* The delivery path for sessions on a project file and on a file outside  *)
(* every workspace folder, with a credential configured.                   *)
(***************************************************************************)
PathDocs == {"main", "scratch"}

PathsInit ==
  /\ Init
  /\ config.apiKey

PathsNext ==
  \/ Tick(CoarseStep, DeliveryMaxTime)
  \/ Activate
  \/ \E e \in PathDocs : OnEditorChange(e)
  \/ OnWindowStateChange(FALSE)
  \/ \E id \in inflight : SendSessionOk(id)
  \/ \E id \in inflight : SendSessionFail(id)
  \/ UploadIntervalTick
  \/ \E delay \in BagToSet(timeouts) : TimeoutFire(delay)
  \/ \E i \in 1..Len(drains) : BatchSendOk(i)
  \/ \E i \in 1..Len(drains) : DrainFinish(i)
  \/ \E i \in 1..Len(drains) : BatchSendFail(i)

SpecPaths == PathsInit /\ [][PathsNext]_vars

(***************************************************************************)
(* The extension host restarts: deactivate() runs stopTracking, the        *)
(* process ends with its timers and pending promises, and the module is    *)
(* loaded again with its variables at their initial values.  globalState   *)
(* (the offline queue) and the settings are kept by the editor.            *)
(***************************************************************************)
Restart ==
  /\ activated
  /\ restarts < MaxRestarts
  /\ restarts' = restarts + 1
  /\ activated' = FALSE
  /\ sessions' = endSession(Tracker).sessions
  /\ stats' = endSession(Tracker).stats
  /\ activeSession' = NoSession
  /\ inflight' = {}
  /\ isTracking' = FALSE
  /\ lastActivityTime' = Null
  /\ activityCheckInterval' = Null
  /\ uploadInterval' = FALSE
  /\ pendingUpload' = FALSE
  /\ uploadRetryCount' = 0
  /\ failStreak' = 0
  /\ drains' = <<>>
  /\ timeouts' = EmptyBag
  /\ UNCHANGED <<now, configVars, queue, warnings, enqueueLog, lastFailed,
                 idleClosed>>

(***************************************************************************)
(* The delivery path across restarts of the extension host.                *)
(***************************************************************************)
RestartNext ==
  \/ DeliveryNext
  \/ Restart

SpecRestart == Init /\ [][RestartNext]_vars

(***************************************************************************)
(* The durable store fails: globalState.update rejects.  Both operations   *)
(* of StorageService catch the error and log it.                           *)
(***************************************************************************)
\* the immediate send fails and addOfflineSession's update fails too: the
\* catch of addOfflineSession, then the rest of saveSession
SendSessionFailStoreFail(id) ==
  /\ id \in inflight
  /\ inflight' = inflight \ {id}
  /\ UNCHANGED <<now, activated, configVars, isTracking, activeSession,
                 lastActivityTime, activityCheckInterval, uploadInterval,
                 sessions, stats, queue, drainVars, hist>>

\* a failure that surfaces in sendOfflineSessions: its catch block, finally
BatchSendOkStoreFail_Raises(i) ==
  /\ i \in 1..Len(drains)
  /\ drains[i].pc = "sending"
  /\ \A k \in DOMAIN stats :
       Occurrences(drains[i].batch, k) > 0 => stats[k].batched < MaxRemoveFailures
  /\ stats' = [k \in DOMAIN stats |->
                 [stats[k] EXCEPT !.batched = @ + Occurrences(drains[i].batch, k)]]
  /\ IF uploadRetryCount < RetryCap
       THEN /\ uploadRetryCount' = uploadRetryCount + 1
            /\ setTimeout(backoffDelay(uploadRetryCount + 1))
            /\ failStreak' = failStreak + 1
       ELSE /\ uploadRetryCount' = 0
            /\ failStreak' = 0
            /\ UNCHANGED timeouts
  /\ pendingUpload' = FALSE
  /\ drains' = RemoveAt(drains, i)
  /\ UNCHANGED <<now, activated, configVars, isTracking, activeSession,
                 lastActivityTime, activityCheckInterval, uploadInterval,
                 sessions, inflight, queue, hist>>

\* the batch is accepted and removeOfflineSessions' update fails: the catch
\* of removeOfflineSessions; sendOfflineSessions goes on after its await
BatchSendOkStoreFail(i) ==
  /\ i \in 1..Len(drains)
  /\ drains[i].pc = "sending"
  /\ \A k \in DOMAIN stats :
       Occurrences(drains[i].batch, k) > 0 => stats[k].batched < MaxRemoveFailures
  /\ stats' = [k \in DOMAIN stats |->
                 [stats[k] EXCEPT !.batched = @ + Occurrences(drains[i].batch, k)]]
  /\ drains' = [drains EXCEPT ![i].pc = "removing"]
  /\ UNCHANGED <<now, activated, configVars, isTracking, activeSession,
                 lastActivityTime, activityCheckInterval, uploadInterval,
                 sessions, inflight, queue, pendingUpload, uploadRetryCount,
                 timeouts, failStreak, hist>>

(***************************************************************************)
(* The delivery path with a store that can fail at every update.           *)
(***************************************************************************)
StoreFailNext ==
  \/ PathsNext
  \/ \E id \in inflight : SendSessionFailStoreFail(id)
  \/ \E i \in 1..Len(drains) : BatchSendOkStoreFail(i)

SpecStoreFail == PathsInit /\ [][StoreFailNext]_vars

(***************************************************************************)
(* The idle check on its timer: armed by activate() at time 0 with the     *)
(* default threshold, the interval fires at every multiple of its period,  *)
(* and the clock does not pass a moment at which the check has work to do. *)
(***************************************************************************)
TimedMinDurations == {DefaultMinSessionDuration, 130, 131}

TimedInit ==
  /\ InitSettings(<<>>, ModelBatchSize, {0}, {"main"},
                  {DefaultIdleThreshold}, TimedMinDurations)
  /\ config.apiKey

\* the interval is at a firing moment
AtCheckTime == now > 0 /\ now % IdleCheckPeriod = 0

\* the check, fired now, would close the session
CheckDue ==
  /\ activityCheckInterval # Null
  /\ AtCheckTime
  /\ activeSession # NoSession
  /\ lastActivityTime # Null
  /\ idleTooLong(lastActivityTime, activityCheckInterval)

\* the next moment at which the interval fires
NextFiring == (now \div IdleCheckPeriod + 1) * IdleCheckPeriod

\* the clock moves on by a step, but stops at the next firing of the
\* interval and at the horizon
TimedTick ==
  /\ activated
  /\ ~CheckDue
  /\ now < TimedMaxTime
  /\ now' = Min(Min(now + TimedStep, NextFiring), TimedMaxTime)
  /\ UNCHANGED <<activated, configVars, trackVars, queue, drainVars, hist>>

TimedIdleCheck ==
  /\ AtCheckTime
  /\ IdleCheckTick

TimedNext ==
  \/ TimedTick
  \/ now = 0 /\ Activate
  \/ OnDocumentChange("main")
  \/ TimedIdleCheck
  \/ \E id \in inflight : SendSessionOk(id)

SpecTimed == TimedInit /\ [][TimedNext]_vars

(***************************************************************************)
(* Drains alone, started on backlogs around the threshold of the short     *)
(* follow-up delay, and on one that a single batch empties.                *)
(***************************************************************************)
FollowUpCounts == {2, 3, 1000, 1001}

FollowUpInit ==
  \E n \in FollowUpCounts :
    /\ InitState(Backlog(n), ModelBatchSize)
    /\ config.apiKey

SpecFollowUp == FollowUpInit /\ [][SizesNext]_vars

(***************************************************************************)
(* The delivery path with a store that can fail and a credential that can  *)
(* be set and cleared, under the scheduling the program relies on: a       *)
(* request settles (the client gives up after its timeout), what follows   *)
(* an await runs, and an armed timer fires.                                *)
(***************************************************************************)
GuardNext ==
  \/ DeliveryNext
  \/ \E id \in inflight : SendSessionFailStoreFail(id)
  \/ \E i \in 1..Len(drains) : BatchSendOkStoreFail(i)

SpecGuard == Init /\ [][GuardNext]_vars

\* the batch request of a drain settles, or the drain runs on after an await
DrainStep ==
  \E i \in 1..Len(drains) :
    \/ BatchSendOk(i)
    \/ BatchSendOkStoreFail(i)
    \/ BatchSendFail(i)
    \/ DrainFinish(i)

TimerStep == \E delay \in BagToSet(timeouts) : TimeoutFire(delay)

FairGuard ==
  Init /\ [][GuardNext]_vars /\ WF_vars(DrainStep) /\ WF_vars(TimerStep)

(***************************************************************************)
(* Vocabulary of the properties.                                           *)
(***************************************************************************)
SessionIds == 1..Len(sessions)

IsClosed(i) == sessions[i].endTime # Null

OpenSessions == {i \in SessionIds : ~IsClosed(i)}

InQueue(id) == Cardinality({j \in 1..Len(queue) : queue[j].id = id})

InSomeBatch(id) ==
  \E i \in 1..Len(drains) : Occurrences(drains[i].batch, id) > 0

IsPrefix(a, b) == Len(a) <= Len(b) /\ SubSeq(b, 1, Len(a)) = a

IsSuffix(a, b) ==
  Len(a) <= Len(b) /\ SubSeq(b, Len(b) - Len(a) + 1, Len(b)) = a

QueueIds == [j \in 1..Len(queue) |-> queue[j].id]

Sending == {i \in 1..Len(drains) : drains[i].pc = "sending"}

(***************************************************************************)
(* C1: at most one session is open at any instant, the open one is the     *)
(* tracker's activeSession, and a session replaced by startSession was     *)
(* closed first: no session is open and unreferenced.                      *)
(***************************************************************************)
C1_AtMostOneOpenSession ==
  /\ Cardinality(OpenSessions) <= 1
  /\ \A i \in OpenSessions : i = activeSession
  /\ activeSession # NoSession => activeSession \in OpenSessions

\* a session was closed at the instant its successor was opened, with
\* auto-tracking on (toggleAutoTracking calls startSession on an open session)
C1_Witness ==
  /\ Len(sessions) >= 2
  /\ activeSession = Len(sessions)
  /\ config.autoTrackEnabled
  /\ sessions[Len(sessions) - 1].endTime = sessions[Len(sessions)].startTime
  /\ sessions[Len(sessions) - 1].startTime < sessions[Len(sessions)].startTime

(***************************************************************************)
(* C2: a closed session shorter than minSessionDuration never reaches the  *)
(* immediate send, the queue or a batch; a closed session of at least      *)
(* minSessionDuration is handed to saveSession exactly once.               *)
(***************************************************************************)
C2_MinDurationFilter ==
  \A i \in SessionIds :
    /\ ~IsClosed(i) => stats[i] = NoStats
    /\ IsClosed(i) /\ sessions[i].duration < config.minSessionDuration =>
         /\ stats[i] = NoStats
         /\ i \notin inflight
         /\ InQueue(i) = 0
         /\ ~InSomeBatch(i)
    /\ IsClosed(i) /\ sessions[i].duration >= config.minSessionDuration =>
         stats[i].attempts = 1

\* one session was dropped by the filter and another went to the queue
C2_Witness ==
  \E i, j \in SessionIds :
    /\ IsClosed(i) /\ sessions[i].duration < config.minSessionDuration
    /\ IsClosed(j) /\ sessions[j].duration >= config.minSessionDuration
    /\ InQueue(j) = 1

(***************************************************************************)
(* C3: every closed session has                                            *)
(* duration = floor((endTime - startTime) / 1000), and it is >= 0.         *)
(***************************************************************************)
C3_DurationIsFloor ==
  \A i \in SessionIds :
    IsClosed(i) =>
      LET elapsed == sessions[i].endTime - sessions[i].startTime
          d == sessions[i].duration
      IN /\ d >= 0
         /\ d * MsPerSecond <= elapsed
         /\ elapsed < (d + 1) * MsPerSecond

\* a session closed after a time that is no whole number of seconds
C3_Witness ==
  \E i \in SessionIds :
    /\ IsClosed(i)
    /\ sessions[i].duration >= 1
    /\ (sessions[i].endTime - sessions[i].startTime) % MsPerSecond # 0

(***************************************************************************)
(* C4: a closed session of at least minSessionDuration gets exactly one    *)
(* immediate send; the send outstanding, accepted or failed-and-appended   *)
(* are exclusive, the append happens once, and no session is both          *)
(* accepted by the immediate send and in the queue.                        *)
(***************************************************************************)
C4_SentOrQueuedOnce ==
  \A i \in SessionIds :
    LET outstanding == IF i \in inflight THEN 1 ELSE 0
    IN /\ stats[i].attempts <= 1
       /\ stats[i].accepted + stats[i].appended + outstanding
            = stats[i].attempts
       /\ IsClosed(i) /\ sessions[i].duration >= config.minSessionDuration
            => stats[i].attempts = 1
       /\ InQueue(i) <= stats[i].appended
       /\ Occurrences([j \in 1..Len(enqueueLog) |-> [id |-> enqueueLog[j]]], i)
            = stats[i].appended
       /\ stats[i].accepted = 1 => InQueue(i) = 0 /\ stats[i].batched = 0

\* one session was accepted by its immediate send, another was appended
C4_Witness ==
  \E i, j \in SessionIds :
    /\ stats[i].accepted = 1
    /\ stats[j].appended = 1 /\ InQueue(j) = 1

(***************************************************************************)
(* C5: while sessions wait in the queue and a credential is configured,    *)
(* a further drain is always on its way: one is in flight, or a timer      *)
(* that starts one is armed, so the queue cannot wait indefinitely.        *)
(***************************************************************************)
C5_DrainAlwaysPending ==
  activated /\ hasOfflineSessions(queue) /\ config.apiKey =>
    \/ drains # <<>>
    \/ uploadInterval
    \/ timeouts # EmptyBag

(***************************************************************************)
(* C6: at most one drain is in flight, pendingUpload is set exactly while  *)
(* it is, and a trigger that arrives meanwhile starts no drain and         *)
(* changes neither the queue nor the drain in flight.                      *)
(***************************************************************************)
DrainTrigger ==
  \/ UploadIntervalTick
  \/ \E delay \in BagToSet(timeouts) : TimeoutFire(delay)
  \/ SetApiKey
  \/ Activate

C6_OneDrainInFlight ==
  /\ [](Len(drains) <= 1 /\ (pendingUpload <=> Len(drains) = 1))
  /\ [][pendingUpload /\ DrainTrigger =>
          UNCHANGED <<queue, drains, pendingUpload, uploadRetryCount>>]_vars

\* a drain is in flight with work left in the queue and a trigger armed
C6_Witness ==
  /\ Len(drains) = 1
  /\ pendingUpload
  /\ hasOfflineSessions(queue)
  /\ uploadInterval
  /\ timeouts # EmptyBag

(***************************************************************************)
(* C7: a failed batch send removes nothing, and the batch of the next      *)
(* drain begins with the same k items, in the same order, as the failed    *)
(* batch of k items.                                                       *)
(***************************************************************************)
C7_NextBatchRepeatsFailed ==
  /\ IsPrefix(lastFailed, queue)
  /\ \A i \in Sending : IsPrefix(lastFailed, drains[i].batch)

(***************************************************************************)
(* C8: an accepted batch removes exactly its own items from the head of    *)
(* the queue; everything appended while the send was in flight remains,    *)
(* and every appended session is in the queue or was sent in a batch.      *)
(***************************************************************************)
C8_SuccessRemovesBatch ==
  /\ [](\A id \in SessionIds :
          InQueue(id) + stats[id].batched = stats[id].appended)
  /\ [][\A i \in 1..Len(drains) :
          BatchSendOk(i) => queue = drains[i].batch \o queue']_vars

\* a batch was removed and a session appended during the send is still queued
C8_Witness ==
  \E i \in 1..Len(drains) :
    /\ drains[i].pc = "removing"
    /\ hasOfflineSessions(queue)
    /\ Len(drains[i].batch) + Len(queue) > drains[i].total

(***************************************************************************)
(* C9: the queue is first-in first-out: it holds the most recently         *)
(* appended sessions in the order of their appends, an append goes to the  *)
(* tail and leaves the earlier entries in place, and getOfflineSessions(n) *)
(* returns the first min(n, count) entries in queue order.                 *)
(***************************************************************************)
C9_QueueIsFifo ==
  /\ [](/\ IsSuffix(QueueIds, enqueueLog)
        /\ \A n \in 0..(Len(queue) + 1) :
             getOfflineSessions(queue, n)
               = [j \in 1..Min(n, Len(queue)) |-> queue[j]]
        /\ \A i \in Sending :
             drains[i].batch
               = [j \in 1..Min(drains[i].batchSize, drains[i].total)
                    |-> queue[j]])
  /\ [][\A id \in inflight :
          SendSessionFail(id) =>
            /\ Len(queue') = Len(queue) + 1
            /\ SubSeq(queue', 1, Len(queue)) = queue
            /\ queue'[Len(queue')].id = id]_vars

\* two sessions wait in the order of their appends behind one already removed
C9_Witness ==
  /\ Len(queue) >= 2
  /\ Len(enqueueLog) > Len(queue)
  /\ QueueIds[1] # QueueIds[2]

(***************************************************************************)
(* C10, as stated: the 1st..5th consecutive failed drains schedule their   *)
(* retries after 1000, 2000, 4000, 8000 and 16000 ms.                      *)
(***************************************************************************)
ClaimedDelays == <<1000, 2000, 4000, 8000, 16000>>

C10_ClaimedBackoffDelays ==
  [][\A i \in 1..Len(drains) :
       BatchSendFail(i) /\ failStreak < RetryCap =>
         timeouts' = timeouts (+) SetToBag({ClaimedDelays[failStreak + 1]})]_vars

(***************************************************************************)
(* C10, amended: starting from a failure counter of zero, the 1st..5th     *)
(* consecutive failed drains schedule their retries after 2000, 4000,      *)
(* 8000, 16000 and 32000 ms (1000 ms * 2^k for the k-th); the 6th          *)
(* schedules none and resets the counter to zero.                          *)
(***************************************************************************)
CodeDelays == <<2000, 4000, 8000, 16000, 32000>>

C10_BackoffDelays ==
  /\ [](uploadRetryCount = failStreak /\ failStreak \in 0..RetryCap)
  /\ [][\A i \in 1..Len(drains) :
          BatchSendFail(i) =>
            IF failStreak < RetryCap
              THEN /\ timeouts' = timeouts (+) SetToBag({CodeDelays[failStreak + 1]})
                   /\ uploadRetryCount' = failStreak + 1
              ELSE /\ timeouts' = timeouts
                   /\ uploadRetryCount' = 0]_vars

\* the fifth consecutive failure has armed its retry
C10_Witness ==
  /\ failStreak = RetryCap
  /\ BagIn(32000, timeouts)

(***************************************************************************)
(* C11: a failed drain with the counter below 5 increments the counter     *)
(* and schedules a retry after 1000 ms * 2^(counter after the increment);  *)
(* a failed drain with the counter at 5 resets it to zero and schedules    *)
(* no retry; a successful drain resets the counter to zero.                *)
(***************************************************************************)
C11_FailureCounterProtocol ==
  [][\A i \in 1..Len(drains) :
       /\ BatchSendFail(i) /\ uploadRetryCount < 5 =>
            /\ uploadRetryCount' = uploadRetryCount + 1
            /\ timeouts' = timeouts (+) SetToBag({1000 * 2^(uploadRetryCount')})
       /\ BatchSendFail(i) /\ uploadRetryCount >= 5 =>
            /\ uploadRetryCount' = 0
            /\ timeouts' = timeouts
       /\ DrainFinish(i) => uploadRetryCount' = 0]_vars

\* the last drain failed with the counter at the cap: the counter is back
\* at zero, sessions wait, and no retry is armed
C11_Witness ==
  /\ lastFailed # <<>>
  /\ uploadRetryCount = 0
  /\ drains = <<>>
  /\ timeouts = EmptyBag
  /\ hasOfflineSessions(queue)

(***************************************************************************)
(* C12: the batch size of a drain is a function of the queue count at its  *)
(* start: the configured uploadBatchSize for a count <= 100, 50 for        *)
(* 100 < count <= 500, 100 for count > 500; the batch holds                *)
(* min(batchSize, count) items, the first of the queue.                    *)
(***************************************************************************)
ClaimedBatchSize(count) ==
  CASE count <= 100 -> config.uploadBatchSize
    [] count > 100 /\ count <= 500 -> 50
    [] count > 500 -> 100

TimerTrigger ==
  \/ UploadIntervalTick
  \/ \E delay \in BagToSet(timeouts) : TimeoutFire(delay)

C13_NoCredentialSkips ==
  [][~config.apiKey /\ canDrain /\ TimerTrigger =>
       /\ drains' = drains
       /\ queue' = queue
       /\ stats' = stats
       /\ uploadRetryCount' = uploadRetryCount
       /\ BagCardinality(timeouts') <= BagCardinality(timeouts)
       /\ pendingUpload' = FALSE
       /\ canDrain']_vars

\* a retry timer fired without a credential: the counter kept its value,
\* no drain started, no timer was armed, the guard is free
C13_Witness ==
  /\ ~config.apiKey
  /\ hasOfflineSessions(queue)
  /\ uploadRetryCount > 0
  /\ timeouts = EmptyBag
  /\ drains = <<>>
  /\ ~pendingUpload

(***************************************************************************)
(* Vocabulary of the grouping properties.  The week of an instant starts   *)
(* at the one local midnight, among those of its day and the six days      *)
(* before, that falls on a Monday.                                         *)
(***************************************************************************)
MondayOf(t) ==
  CHOOSE m \in {(localDay(t) - k) * DayMs - timezoneOffset : k \in 0..6} :
    getDay(m) = 1

PairOf(session) ==
  <<session.language_id, MondayOf(parseISO(session.start_time))>>

GroupPair(g) == <<g.language_id, parseISO(g.start_time)>>

Members(list, pair) == {j \in 1..Len(list) : PairOf(list[j]) = pair}

RECURSIVE SumDuration(_, _)
SumDuration(list, J) ==
  IF J = {} THEN 0
  ELSE LET j == CHOOSE x \in J : TRUE
       IN list[j].duration + SumDuration(list, J \ {j})

\* the sessions a drain in flight sent, as formatted, and what was posted
Sent(i) == formattedSessions(drains[i].batch)

Posted(i) == sendBatchSessions(Sent(i))

(***************************************************************************)
(* C14: the grouping emits exactly one group per distinct (language id,    *)
(* week start of start_time) of the batch; a group's duration is the sum   *)
(* of its members' durations, its end the latest member end time, its      *)
(* start the week start.                                                   *)
(***************************************************************************)
C14_OneGroupPerLanguageWeek ==
  \A i \in 1..Len(drains) :
    LET list == Sent(i)
        groups == Posted(i)
        pairs == {PairOf(list[j]) : j \in 1..Len(list)}
    IN /\ Len(groups) = Cardinality(pairs)
       /\ {GroupPair(groups[g]) : g \in 1..Len(groups)} = pairs
       /\ \A g \in 1..Len(groups) :
            LET M == Members(list, GroupPair(groups[g]))
            IN /\ groups[g].duration = SumDuration(list, M)
               /\ \E j \in M : groups[g].end_time = list[j].end_time
               /\ \A j \in M : parseISO(groups[g].end_time)
                                 >= parseISO(list[j].end_time)
               /\ groups[g].start_time
                    = toISOString(MondayOf(parseISO(groups[g].start_time)))

\* the scenario: durations 30 and 45, same language, same week, one group of
\* 75 that ends with the later session, which comes first in the batch
C14_Witness ==
  \E i \in 1..Len(drains) :
    /\ Len(Sent(i)) = 2
    /\ Sent(i)[1].duration = 45 /\ Sent(i)[2].duration = 30
    /\ parseISO(Sent(i)[1].end_time) > parseISO(Sent(i)[2].end_time)
    /\ Len(Posted(i)) = 1
    /\ Posted(i)[1].duration = 75
    /\ Posted(i)[1].end_time = Sent(i)[1].end_time

(***************************************************************************)
(* C15: grouping loses no duration: the durations of the groups posted     *)
(* for a batch sum to the durations of the sessions of the batch, and      *)
(* every session of the batch belongs to exactly one group.                *)
(***************************************************************************)
C15_GroupingKeepsTotal ==
  \A i \in 1..Len(drains) :
    LET list == Sent(i)
        groups == Posted(i)
    IN /\ SumDuration(groups, 1..Len(groups))
            = SumDuration(list, 1..Len(list))
       /\ \A j \in 1..Len(list) :
            Cardinality({g \in 1..Len(groups) :
                           GroupPair(groups[g]) = PairOf(list[j])}) = 1

\* three sessions were posted as two groups
C15_Witness ==
  \E i \in 1..Len(drains) :
    /\ Len(Sent(i)) = 3
    /\ Len(Posted(i)) = 2
    /\ drains[i].pc = "removing"

(***************************************************************************)
(* C16: ApiService.getWeekStart and Utils.getWeekStart agree on every      *)
(* date: both give the Monday of the date's week at 00:00:00.000 (for a    *)
(* Sunday the Monday six days earlier); Utils.getWeekEnd is that Monday    *)
(* plus six days at 23:59:59.999; weekStart(d) <= d <= weekEnd(d).         *)
(***************************************************************************)
DatesInBatches ==
  UNION {{parseISO(drains[i].batch[j].startTime),
          parseISO(drains[i].batch[j].endTime)} :
           i \in 1..Len(drains), j \in 1..1}

C16_WeekBoundsAgree ==
  \A d \in DatesInBatches :
    LET ws == getWeekStart(d)
        we == Utils_getWeekEnd(d)
    IN /\ Utils_getWeekStart(d) = ws
       /\ ws = MondayOf(d)
       /\ getDay(ws) = 1
       /\ (ws + timezoneOffset) % DayMs = 0
       /\ getDay(d) = 0 => localDay(d) - localDay(ws) = 6
       /\ localDay(we) - localDay(ws) = 6
       /\ (we + timezoneOffset) % DayMs = DayMs - 1
       /\ ws <= d /\ d <= we

\* a session that started on a local Sunday, east of UTC, was posted in
\* the group of the Monday more than six days before
C16_Witness ==
  \E i \in 1..Len(drains) :
    LET d == parseISO(Sent(i)[1].start_time)
    IN /\ timezoneOffset > 0
       /\ getDay(d) = 0
       /\ parseISO(Posted(i)[1].start_time) = Utils_getWeekStart(d)
       /\ d - Utils_getWeekStart(d) > 6 * DayMs

(***************************************************************************)
(* C17: the offline warning is shown exactly on an enqueue that brings     *)
(* the queue count to 10, 50, 100 or 500, for that count; no removal and   *)
(* no enqueue to any other count shows it.                                 *)
(***************************************************************************)
C17_WarningOnExactCount ==
  [][LET enqueued == \E id \in inflight : SendSessionFail(id)
         fires == warnings' # warnings
     IN /\ fires <=> enqueued /\ Len(queue') \in {10, 50, 100, 500}
        /\ fires => warnings' = Append(warnings, Len(queue'))
        /\ Len(queue') < Len(queue) => ~fires]_vars

\* the enqueue from 9 to 10 warned, the one from 10 to 11 did not
C17_Witness ==
  /\ Len(queue) = 11
  /\ Len(enqueueLog) = 2
  /\ warnings = <<10>>

(***************************************************************************)
(* Vocabulary of the tracker's transitions.  The tracker is in state       *)
(* Tracking when a session is open, in state Idle otherwise.               *)
(***************************************************************************)
Trackable(d) == shouldTrackDocument(d, config, isTracking)

\* this step opened a new session on d, at this instant
Opened(d) ==
  /\ Len(sessions') = Len(sessions) + 1
  /\ activeSession' = Len(sessions')
  /\ sessions'[activeSession'].doc = d
  /\ sessions'[activeSession'].startTime = now
  /\ sessions'[activeSession'].endTime = Null

\* this step closed the session that was open, at this instant
ClosedCurrent ==
  /\ activeSession # NoSession
  /\ sessions'[activeSession].endTime = now
  /\ activeSession' # activeSession

\* this step neither closed nor opened a session
SameSessions ==
  /\ activeSession' = activeSession
  /\ sessions' = sessions

(***************************************************************************)
(* C18, as stated: in Tracking, an activity event on a trackable target T  *)
(* closes the session and opens Session(T) if T differs from the current   *)
(* target, and only refreshes lastActivityTime if T is the current         *)
(* target; in Idle it opens Session(T).  (Read for a tracker that is       *)
(* switched on.)                                                           *)
(***************************************************************************)
C18_ActivitySwitchesByTarget ==
  [][\A d \in Docs :
       /\ isTracking /\ Trackable(d)
       /\ OnDocumentChange(d) \/ OnEditorChange(d)
       => IF activeSession = NoSession THEN Opened(d)
          ELSE IF sessions[activeSession].doc # d
            THEN ClosedCurrent /\ Opened(d)
          ELSE SameSessions /\ lastActivityTime' = now]_vars

(***************************************************************************)
(* C18, amended: while tracking is on, a document change on a trackable T  *)
(* opens Session(T) in Idle and in Tracking only refreshes                 *)
(* lastActivityTime, whatever the current target; an editor change to a    *)
(* trackable T opens Session(T) after closing the open session, if any,    *)
(* also when T is the current target.  While tracking is off neither       *)
(* event changes anything.                                                 *)
(***************************************************************************)
C18_ActivityByEvent ==
  [][\A d \in Docs :
       Trackable(d) =>
         /\ isTracking /\ OnDocumentChange(d) =>
              /\ lastActivityTime' = now
              /\ IF activeSession = NoSession THEN Opened(d)
                 ELSE SameSessions
         /\ isTracking /\ OnEditorChange(d) =>
              /\ lastActivityTime' = now
              /\ Opened(d)
              /\ activeSession # NoSession => ClosedCurrent
         /\ ~isTracking /\ (OnDocumentChange(d) \/ OnEditorChange(d)) =>
              /\ SameSessions
              /\ lastActivityTime' = lastActivityTime]_vars

\* an editor change to the current target closed its session and opened
\* another on the same document
C18_Witness ==
  /\ Len(sessions) >= 2
  /\ activeSession = Len(sessions)
  /\ sessions[Len(sessions)].doc = sessions[Len(sessions) - 1].doc
  /\ sessions[Len(sessions)].doc = activeEditor
  /\ sessions[Len(sessions) - 1].endTime = sessions[Len(sessions)].startTime
  /\ sessions[Len(sessions) - 1].startTime < sessions[Len(sessions)].startTime
  /\ lastActivityTime = sessions[Len(sessions)].startTime

(***************************************************************************)
(* C19: with tracking on, an activity or editor-change event on a target   *)
(* that is not trackable, no editor at all included, closes the open       *)
(* session and leaves the tracker Idle; in Idle it opens and closes        *)
(* nothing.                                                                *)
(***************************************************************************)
C19_NonTrackableCloses ==
  [][\A d \in Docs \cup {NoDoc} :
       /\ isTracking /\ ~Trackable(d)
       /\ OnEditorChange(d) \/ (d # NoDoc /\ OnDocumentChange(d))
       => IF activeSession # NoSession
            THEN ClosedCurrent /\ activeSession' = NoSession
            ELSE SameSessions]_vars

(***************************************************************************)
(* C20: an idle-check tick closes the open session, leaving the tracker    *)
(* Idle, exactly when now - lastActivityTime is strictly greater than the  *)
(* idle threshold; at or below the threshold the session stays open and    *)
(* unchanged, and a tick in Idle changes nothing.  The first conjunct says *)
(* that the closing tick is there to be taken whenever the session has     *)
(* been idle too long, the second what every tick does.                    *)
(***************************************************************************)
IdleFor == now - lastActivityTime

StrictlyIdle ==
  /\ activeSession # NoSession
  /\ lastActivityTime # Null
  /\ IdleFor > config.idleThreshold * MsPerSecond

C20_IdleCheckStrict ==
  /\ [](StrictlyIdle /\ activityCheckInterval # Null
          => ENABLED (IdleCheckTick /\ activeSession' = NoSession))
  /\ [][IdleCheckTick =>
          IF StrictlyIdle
            THEN ClosedCurrent /\ activeSession' = NoSession
            ELSE SameSessions /\ lastActivityTime' = lastActivityTime]_vars

\* the idle check has closed a session, beyond the threshold, with tracking on
C20_Witness ==
  /\ isTracking
  /\ activeSession = NoSession
  /\ \E i \in idleClosed :
       /\ sessions[i].endTime = now
       /\ sessions[i].endTime - lastActivityTime
            > config.idleThreshold * MsPerSecond

(***************************************************************************)
(* C21: an explicit stop (the stop command, or the toggle command while    *)
(* enabled) or a focus-lost event with a session open closes that session, *)
(* with its duration computed and the minimum-duration filter applied, and *)
(* leaves the tracker Idle; with no session open the same events open and  *)
(* close nothing and hand nothing to the delivery path.  The first         *)
(* conjunct says that the closing focus-lost step is there to be taken.    *)
(***************************************************************************)
StopOrFocusLost ==
  \/ StopCommand
  \/ ToggleTracking /\ config.enabled
  \/ OnWindowStateChange(FALSE)

\* this step closed the open session and left the tracker Idle, emitting
\* the session to the delivery path exactly when it is long enough
ClosedAndFiltered ==
  /\ ClosedCurrent
  /\ activeSession' = NoSession
  /\ Len(sessions') = Len(sessions)
  /\ sessions'[activeSession].duration
       = floorSeconds(now - sessions[activeSession].startTime)
  /\ IF sessions'[activeSession].duration >= config.minSessionDuration
       THEN /\ inflight' = inflight \cup {activeSession}
            /\ stats'[activeSession].attempts = 1
       ELSE /\ inflight' = inflight
            /\ stats'[activeSession].attempts = 0

\* this step gave nothing to the delivery path
NothingEmitted ==
  /\ inflight' = inflight
  /\ stats' = stats
  /\ queue' = queue

C21_StopClosesSession ==
  /\ [](activated /\ isTracking /\ activeSession # NoSession
          => ENABLED (OnWindowStateChange(FALSE) /\ activeSession' = NoSession))
  /\ [][StopOrFocusLost =>
          IF activeSession # NoSession
            THEN ClosedAndFiltered
            ELSE SameSessions /\ NothingEmitted]_vars

\* focus was lost with a session open: it is closed, long enough to be
\* emitted, and the tracker is Idle and still switched on
C21_Witness ==
  /\ isTracking
  /\ activeSession = NoSession
  /\ config.autoTrackEnabled
  /\ \E i \in DOMAIN sessions :
       /\ i \notin idleClosed
       /\ sessions[i].endTime = now
       /\ sessions[i].doc = activeEditor
       /\ lastActivityTime < now
       /\ sessions[i].duration >= config.minSessionDuration
       /\ stats[i].attempts = 1

(***************************************************************************)
(* C22, as stated: an explicit start or a focus-gained event with a        *)
(* trackable editor active opens a new session when no session is open,    *)
(* and leaves the open session alone when one is.  (Read with a credential *)
(* configured and, for the focus event, with the tracker switched on.)     *)
(***************************************************************************)
TargetPresent == shouldTrackDocument(activeEditor, config, TRUE)

\* a session can still be added to the model's record of sessions
Room == Len(sessions) < MaxSessions

C22_StartOpensWhenIdle ==
  /\ [](/\ activated /\ TargetPresent /\ config.apiKey /\ Room
        /\ activeSession = NoSession
        => ENABLED (StartCommand /\ Opened(activeEditor)))
  /\ [](/\ activated /\ TargetPresent /\ config.apiKey /\ Room
        /\ activeSession = NoSession /\ isTracking
        => ENABLED (OnWindowStateChange(TRUE) /\ Opened(activeEditor)))
  /\ [][/\ TargetPresent /\ config.apiKey
        /\ StartCommand \/ (isTracking /\ OnWindowStateChange(TRUE))
        => IF activeSession = NoSession
             THEN Opened(activeEditor)
             ELSE SameSessions]_vars

(***************************************************************************)
(* C22, amended: with a trackable editor active, an explicit start opens a *)
(* new session exactly when the tracker is switched off and a credential   *)
(* is configured, and then also switches the tracker on; with the tracker  *)
(* already on, or with no credential, it changes nothing.  A focus-gained  *)
(* event with the tracker on refreshes lastActivityTime, opens a session   *)
(* when none is open and leaves the open session alone otherwise; with the *)
(* tracker off it changes nothing.                                         *)
(***************************************************************************)
C22_StartByTrackerState ==
  /\ [](/\ activated /\ TargetPresent /\ config.apiKey /\ Room
        /\ ~isTracking
        => ENABLED (StartCommand /\ Opened(activeEditor)))
  /\ [](/\ activated /\ TargetPresent /\ Room
        /\ activeSession = NoSession /\ isTracking
        => ENABLED (OnWindowStateChange(TRUE) /\ Opened(activeEditor)))
  /\ [][TargetPresent =>
          /\ StartCommand =>
               IF ~isTracking /\ config.apiKey
                 THEN isTracking' /\ Opened(activeEditor)
                 ELSE UNCHANGED trackVars
          /\ OnWindowStateChange(TRUE) =>
               IF isTracking
                 THEN /\ lastActivityTime' = now
                      /\ IF activeSession = NoSession
                           THEN Opened(activeEditor) ELSE SameSessions
                 ELSE UNCHANGED trackVars]_vars

\* a session was opened at this instant on the active editor, with the
\* tracker on, after the idle check had closed the one before it
C22_Witness ==
  /\ isTracking
  /\ Len(sessions) >= 2
  /\ activeSession = Len(sessions)
  /\ sessions[activeSession].startTime = now
  /\ sessions[activeSession].doc = activeEditor
  /\ lastActivityTime = now
  /\ (activeSession - 1) \in idleClosed
  /\ sessions[activeSession - 1].endTime <= now

(***************************************************************************)
(* C23: stopTracking, in one step, closes the open session and cancels the *)
(* idle-check interval and the periodic drain interval; while tracking is  *)
(* off no session is open and neither interval can fire; the stop leaves   *)
(* the sends in flight, the drain guard and the retry timers as they were, *)
(* and the continuation of every send in flight stays free to run.         *)
(***************************************************************************)
SendingDrains == {i \in 1..Len(drains) : drains[i].pc = "sending"}

C23_StopCancelsTimers ==
  /\ [](~isTracking =>
          /\ activeSession = NoSession
          /\ ~ENABLED IdleCheckTick
          /\ ~ENABLED UploadIntervalTick
          /\ \A id \in inflight : ENABLED SendSessionOk(id)
          /\ \A id \in inflight : ENABLED SendSessionFail(id)
          /\ \A i \in SendingDrains : ENABLED BatchSendOk(i))
  /\ [][StopCommand /\ isTracking =>
          /\ ~isTracking'
          /\ activityCheckInterval' = Null
          /\ ~uploadInterval'
          /\ activeSession' = NoSession
          /\ activeSession # NoSession => ClosedCurrent
          /\ inflight \subseteq inflight'
          /\ UNCHANGED <<drains, pendingUpload, timeouts, uploadRetryCount,
                         queue>>]_vars

\* tracking has been stopped, both intervals are cancelled, and an immediate
\* send and a batch send are in flight
C23_Witness ==
  /\ activated
  /\ ~isTracking
  /\ activityCheckInterval = Null
  /\ ~uploadInterval
  /\ inflight # {}
  /\ SendingDrains # {}
  /\ pendingUpload

(***************************************************************************)
(* C24: every step that opens a session, whatever the handler, opens it    *)
(* for a document the trackability predicate accepts with the settings and *)
(* the tracking flag as they are when the session is created; and no       *)
(* session ever exists for a document the predicate rejects on its own     *)
(* account: no document, an untitled or non-file document, a file of an    *)
(* excluded project, a file matching an excluded pattern.                  *)
(***************************************************************************)
Rejected(d) ==
  \/ d = NoDoc
  \/ isUntitled(d)
  \/ scheme(d) # "file"
  \/ projectNameOf(d) \in excludedProjects
  \/ \E pat \in excludedFiles : minimatch(fsPath(d), pat)

\* the sessions this step created
NewSessions == (Len(sessions) + 1)..Len(sessions')

C24_OpenedOnlyIfTrackable ==
  /\ [](\A i \in DOMAIN sessions : ~Rejected(sessions[i].doc))
  /\ [][\A i \in NewSessions :
          /\ ~Rejected(sessions'[i].doc)
          /\ config'.enabled
          /\ config'.autoTrackEnabled \/ isTracking'
          /\ shouldTrackDocument(sessions'[i].doc, config', isTracking')]_vars

\* sessions were opened on two accepted documents, and the editor then
\* moved to a file of an excluded pattern with tracking on: the open
\* session was closed and none was opened for that file
C24_Witness ==
  /\ isTracking
  /\ activeEditor = "log"
  /\ activeSession = NoSession
  /\ lastActivityTime = now
  /\ \E i, j \in DOMAIN sessions :
       /\ sessions[i].doc # sessions[j].doc
       /\ sessions[j].endTime = now

(***************************************************************************)
(* C25: the filePath of every session startSession creates, for a          *)
(* document inside a workspace folder or outside every one, is not an      *)
(* absolute filesystem path.                                               *)
(***************************************************************************)
C25_RelativePathNotAbsolute ==
  \A i \in DOMAIN sessions : ~isAbsolute(sessions[i].filePath)

(***************************************************************************)
(* C26: no record in the offline queue and no payload handed to the sink,  *)
(* by the immediate send or by a batch send, carries an absolute path,     *)
(* also for sessions opened on a file outside every workspace folder: the  *)
(* stored record and the single-session payload have no path field at all, *)
(* and the path field of a posted group is empty.                          *)
(***************************************************************************)
StoredFields == {"id", "language", "startTime", "endTime", "duration"}

PayloadFields == {"language_id", "start_time", "end_time", "duration"}

\* a record with only the listed fields, or with a path that is not absolute
PathFree(rec, fields) ==
  /\ DOMAIN rec \subseteq fields \cup {"filePath"}
  /\ "filePath" \in DOMAIN rec => ~isAbsolute(rec.filePath)

C26_NoAbsolutePathLeaves ==
  /\ \A j \in 1..Len(queue) : PathFree(queue[j], StoredFields)
  /\ \A id \in inflight : PathFree(sessionData(sessions[id]), PayloadFields)
  /\ \A i \in SendingDrains :
       /\ \A j \in 1..Len(Sent(i)) : PathFree(Sent(i)[j], PayloadFields)
       /\ \A g \in 1..Len(Posted(i)) : Posted(i)[g].file_path = ""

\* a session whose filePath is absolute is in the queue and in the batch a
\* drain is sending, and another such session is being sent on its own
C26_Witness ==
  /\ \E i \in SendingDrains : \E j \in 1..Len(drains[i].batch) :
       /\ drains[i].batch[j].id \in DOMAIN sessions
       /\ isAbsolute(sessions[drains[i].batch[j].id].filePath)
       /\ \E k \in 1..Len(queue) : queue[k].id = drains[i].batch[j].id
  /\ \E id \in inflight : isAbsolute(sessions[id].filePath)

(***************************************************************************)
(* C27: no step taken while the enabled setting is false creates a         *)
(* session, whatever the event: start command, document change, editor     *)
(* change, focus gained, auto-tracking toggle.  (The setting is read as it *)
(* stands when the handler gets to opening a session; a toggle command     *)
(* that switches it on is not a step with the setting false.)              *)
(***************************************************************************)
C27_DisabledOpensNothing ==
  [][~config'.enabled =>
       /\ NewSessions = {}
       /\ activeSession' \in {activeSession, NoSession}]_vars

\* the setting is off, tracking was nevertheless started by the start
\* command after time had passed, a project file is in the editor, and no
\* session is open
C27_Witness ==
  /\ ~config.enabled
  /\ isTracking
  /\ activeEditor = "main"
  /\ activeSession = NoSession
  /\ lastActivityTime = now
  /\ now > 0

(***************************************************************************)
(* What C28 says of every step: a session's startTime never changes; an    *)
(* open session changes only by being closed, and then endTime and         *)
(* duration are set in that one step, to the instant of the close and the  *)
(* whole seconds since the start; a closed session never changes and is    *)
(* never the open session again; exactly the open session has no endTime.  *)
(***************************************************************************)
IsOpen(s) == s.endTime = Null

SetOnceAtClose ==
  \A i \in DOMAIN sessions :
    /\ i \in DOMAIN sessions'
    /\ sessions'[i].startTime = sessions[i].startTime
    /\ IF IsOpen(sessions[i])
         THEN \/ sessions'[i] = sessions[i]
              \/ /\ sessions'[i].endTime = now
                 /\ sessions'[i].duration
                      = floorSeconds(now - sessions[i].startTime)
                 /\ sessions'[i]
                      = [sessions[i] EXCEPT !.endTime = sessions'[i].endTime,
                                            !.duration = sessions'[i].duration]
         ELSE /\ sessions'[i] = sessions[i]
              /\ activeSession' # i

OnlyTheActiveIsOpen ==
  \A i \in DOMAIN sessions : IsOpen(sessions[i]) <=> i = activeSession

(***************************************************************************)
(* C28, as stated: endTime and duration are both null from creation until  *)
(* the close, are set together in one step at the close and never change   *)
(* afterwards; startTime never changes; a closed session is never reopened.*)
(***************************************************************************)
C28_NullUntilClosed ==
  /\ [](OnlyTheActiveIsOpen)
  /\ [](\A i \in DOMAIN sessions :
          IsOpen(sessions[i]) => sessions[i].duration = Null)
  /\ [][SetOnceAtClose]_vars

(***************************************************************************)
(* C28, amended: from creation until the close endTime is null and         *)
(* duration is 0; both are set together in one step at the close and never *)
(* change afterwards; startTime never changes; a closed session is never   *)
(* reopened.                                                               *)
(***************************************************************************)
C28_ZeroUntilClosed ==
  /\ [](OnlyTheActiveIsOpen)
  /\ [](\A i \in DOMAIN sessions :
          IsOpen(sessions[i]) => sessions[i].duration = 0)
  /\ [][SetOnceAtClose]_vars

\* a closed session of a second or more, a later one closed too, and a third
\* open on the document of the first
C28_Witness ==
  /\ Len(sessions) = 3
  /\ activeSession = 3
  /\ ~IsOpen(sessions[1]) /\ sessions[1].duration >= 1
  /\ ~IsOpen(sessions[2])
  /\ sessions[3].doc = sessions[1].doc
  /\ sessions[3].startTime > sessions[1].endTime

(***************************************************************************)
(* C29: a restart leaves the offline queue as it was, contents and order,  *)
(* and the settings too; it resets the open session, the last-activity     *)
(* time, the drain-in-flight guard and the failure counter; and the        *)
(* activation that follows starts a drain of the head of the queue in that *)
(* same step, when the queue is not empty and a credential is configured.  *)
(***************************************************************************)
C29_QueueSurvivesRestart ==
  [][/\ Restart =>
          /\ queue' = queue
          /\ config' = config
          /\ activeSession' = NoSession
          /\ lastActivityTime' = Null
          /\ ~pendingUpload'
          /\ uploadRetryCount' = 0
     /\ Activate /\ hasOfflineSessions(queue) /\ config.apiKey =>
          /\ pendingUpload'
          /\ Len(drains') = Len(drains) + 1
          /\ drains'[Len(drains')].pc = "sending"
          /\ drains'[Len(drains')].batch
               = getOfflineSessions(queue, config.uploadBatchSize)]_vars

\* after a restart the extension is active again and a drain of the head of
\* the queue is in flight, the queue holding what was stored before
C29_Witness ==
  /\ restarts > 0
  /\ activated
  /\ Len(queue) >= 2
  /\ \E i \in SendingDrains :
       drains[i].batch = getOfflineSessions(queue, Len(drains[i].batch))

(***************************************************************************)
(* C30: a failure of the store stays inside StorageService.  When the      *)
(* update of addOfflineSession fails after a failed immediate send, the    *)
(* queue is unchanged, no backlog warning is shown, saveSession ends, and  *)
(* the session is gone: no send of it is pending, no timer is armed for    *)
(* it, and no session is ever tried twice.  When the update of             *)
(* removeOfflineSessions fails, the queue is unchanged and                 *)
(* sendOfflineSessions goes on along its success path: the failure counter *)
(* and the retry timers are untouched by that step.                        *)
(***************************************************************************)
\* sessions that were tried once and are neither accepted, stored nor pending
Lost ==
  {id \in DOMAIN stats :
     /\ stats[id].attempts = 1
     /\ stats[id].accepted = 0
     /\ stats[id].appended = 0
     /\ id \notin inflight}

C30_StoreFailureContained ==
  /\ [](\A id \in DOMAIN stats : stats[id].attempts <= 1)
  /\ [][\A id \in inflight :
          SendSessionFailStoreFail(id) =>
            /\ queue' = queue
            /\ warnings' = warnings
            /\ id \in Lost'
            /\ inflight' = inflight \ {id}
            /\ UNCHANGED <<drains, timeouts, uploadRetryCount,
                           pendingUpload>>]_vars
  /\ [][\A i \in SendingDrains :
          BatchSendOkStoreFail(i) =>
            /\ queue' = queue
            /\ Len(drains') = Len(drains)
            /\ drains'[i].pc = "removing"
            /\ UNCHANGED <<timeouts, uploadRetryCount, pendingUpload>>]_vars

\* one session was lost to a failing store, and a drain whose batch was
\* accepted could not remove it: the batch is still the head of the queue
C30_Witness ==
  /\ Lost # {}
  /\ \E i \in 1..Len(drains) :
       /\ drains[i].pc = "removing"
       /\ drains[i].batch = getOfflineSessions(queue, Len(drains[i].batch))

(***************************************************************************)
(* C31: with the idle threshold at 120 s and the check every 10 s, a       *)
(* session opened by activity at time 0 and left without further activity  *)
(* stays open through the check at 120 s and is closed by the check at     *)
(* 130 s; it is handed to the delivery path when its recorded duration     *)
(* reaches minSessionDuration and dropped otherwise.  The claim puts the   *)
(* recorded duration at about 120 s (within one check period of it); the   *)
(* code records the time from the start to the closing check, 130 s.       *)
(***************************************************************************)
\* the session of the scenario is open: started at 0, no activity since
Scenario ==
  /\ config.idleThreshold = DefaultIdleThreshold
  /\ activeSession # NoSession
  /\ sessions[activeSession].startTime = 0
  /\ lastActivityTime = 0

About(d, seconds) ==
  /\ d > seconds - IdleCheckPeriod \div MsPerSecond
  /\ d < seconds + IdleCheckPeriod \div MsPerSecond

\* the check closes the session of the scenario and applies the filter
ScenarioClosed ==
  LET id == activeSession
  IN /\ activeSession' = NoSession
     /\ sessions'[id].endTime = 130 * MsPerSecond
     /\ IF sessions'[id].duration >= config.minSessionDuration
          THEN stats'[id].attempts = 1 /\ id \in inflight'
          ELSE stats'[id].attempts = 0 /\ id \notin inflight'

ScenarioRuns ==
  /\ [](Scenario => now <= 130 * MsPerSecond)
  /\ [](Scenario /\ now = 130 * MsPerSecond
          => ENABLED (TimedIdleCheck /\ activeSession' = NoSession))

C31_IdleScenarioAbout120 ==
  /\ ScenarioRuns
  /\ [][Scenario /\ TimedIdleCheck =>
          IF now < 130 * MsPerSecond
            THEN SameSessions
            ELSE /\ ScenarioClosed
                 /\ About(sessions'[activeSession].duration, 120)]_vars

C31_IdleScenario130 ==
  /\ ScenarioRuns
  /\ [][Scenario /\ TimedIdleCheck =>
          IF now < 130 * MsPerSecond
            THEN SameSessions
            ELSE /\ ScenarioClosed
                 /\ sessions'[activeSession].duration = 130]_vars

\* the check at 130 s has just closed the session of the scenario, 130 s
\* long, which met the minimum exactly and went to the delivery path
C31_Witness ==
  /\ now = 130 * MsPerSecond
  /\ lastActivityTime = 0
  /\ config.minSessionDuration = 130
  /\ \E i \in idleClosed :
       /\ sessions[i].startTime = 0
       /\ sessions[i].endTime = now
       /\ sessions[i].duration = 130
       /\ stats[i].attempts = 1

(***************************************************************************)
(* C32: when a drain ends on its success path with the queue not empty, it *)
(* arms exactly one timer for the next drain: 500 ms if the queue held     *)
(* more than 1000 records when the drain started, 2000 ms otherwise, never *)
(* more than 5000 ms; when it ends with the queue empty it arms none.      *)
(***************************************************************************)
ClaimedFollowUpDelay(total) == IF total > 1000 THEN 500 ELSE 2000

C32_FollowUpDrain ==
  [][\A i \in 1..Len(drains) :
       DrainFinish(i) =>
         IF queue # <<>>
           THEN /\ timeouts' = timeouts (+)
                      SetToBag({ClaimedFollowUpDelay(drains[i].total)})
                /\ BagCardinality(timeouts') = BagCardinality(timeouts) + 1
                /\ ClaimedFollowUpDelay(drains[i].total) <= 5000
           ELSE timeouts' = timeouts]_vars

\* a drain that started on 1001 records has ended and armed the short delay
C32_Witness ==
  /\ Len(queue) = 1001 - BatchSize2
  /\ drains = <<>>
  /\ ~pendingUpload
  /\ timeouts = SetToBag({500})

(***************************************************************************)
(* C33: larger backlogs drain faster per round.  The batch size a drain    *)
(* chooses is never smaller than the configured uploadBatchSize, and never *)
(* smaller than the size the same settings give a shorter queue.           *)
(***************************************************************************)
C33_BatchSizeNonDecreasing ==
  [][Len(drains') > Len(drains) =>
       LET started == drains'[Len(drains')]
           count == Len(queue)
       IN /\ started.batchSize >= config.uploadBatchSize
          /\ \A c \in 0..count : batchSizeFor(c) <= started.batchSize]_vars

(***************************************************************************)
(* C34: startTracking (the start command, activation with the extension    *)
(* enabled, the toggle command while disabled) changes no tracker state    *)
(* when no API key is configured: isTracking stays false, neither timer is *)
(* armed, no session is opened.  While tracking is on it is a no-op too:   *)
(* the timers and the open session stay as they are.                       *)
(***************************************************************************)
StartTrackingCalled ==
  \/ StartCommand
  \/ Activate /\ config.enabled
  \/ ToggleTracking /\ ~config.enabled

C34_StartWithoutKeyIsNoOp ==
  /\ [](~isTracking =>
          /\ activityCheckInterval = Null
          /\ ~uploadInterval
          /\ activeSession = NoSession)
  /\ [][StartTrackingCalled /\ (~config.apiKey \/ isTracking)
          => UNCHANGED trackVars]_vars

\* activation found the extension enabled, a trackable editor and no key:
\* tracking is off, no timer is armed and no session was ever opened
C34_Witness ==
  /\ activated
  /\ config.enabled
  /\ ~config.apiKey
  /\ TargetPresent
  /\ ~isTracking
  /\ activityCheckInterval = Null
  /\ ~uploadInterval
  /\ sessions = <<>>

(***************************************************************************)
(* C35: a session is open only while tracking is on.  While tracking is    *)
(* off, and stays off, no step opens a session or adds one: a session can  *)
(* appear only in a step in which startTracking switches tracking on.      *)
(***************************************************************************)
C35_OpenOnlyWhileTracking ==
  /\ [](activeSession # NoSession => isTracking)
  /\ [][~isTracking /\ ~isTracking' =>
          /\ activeSession' = NoSession
          /\ sessions' = sessions]_vars
  /\ [][~isTracking /\ activeSession' # NoSession =>
          /\ StartTrackingCalled
          /\ config.apiKey
          /\ isTracking']_vars

\* tracking was stopped after a session, time has passed, and a trackable
\* editor is there with automatic tracking on: nothing is open
C35_Witness ==
  /\ activated
  /\ ~isTracking
  /\ config.apiKey
  /\ config.autoTrackEnabled
  /\ TargetPresent
  /\ activeSession = NoSession
  /\ \E i \in 1..Len(sessions) :
       /\ sessions[i].endTime # Null
       /\ sessions[i].endTime < now
       /\ sessions[i].doc # activeEditor

BatchIds(batch) == {batch[j].id : j \in 1..Len(batch)}

C37_AcceptedOnceInBatches ==
  /\ [](\A id \in SessionIds : stats[id].batched <= 1)
  /\ [][\A i \in 1..Len(drains) :
          BatchSendOk(i) =>
            \A id \in BatchIds(drains[i].batch) \cap SessionIds :
              /\ stats'[id].batched = 1
              /\ \A j \in 1..Len(queue') : queue'[j].id # id]_vars
  /\ [][Len(drains') > Len(drains) =>
          \A id \in BatchIds(drains'[Len(drains')].batch) \cap SessionIds :
            stats[id].batched = 0]_vars

\* a session went out in an accepted batch and is gone from the queue, and
\* a later drain is sending another session
C37_Witness ==
  \E id \in SessionIds, i \in 1..Len(drains) :
    /\ stats[id].batched = 1
    /\ InQueue(id) = 0
    /\ drains[i].pc = "sending"
    /\ id \notin BatchIds(drains[i].batch)

(***************************************************************************)
(* C38: with tracking on and the idle check firing every 10 s, no session  *)
(* is open later than idleThreshold + 10 s after the last recorded         *)
(* activity: once the session has been idle for more than the threshold,   *)
(* the next firing of the timer closes it, and that firing is at most one  *)
(* period away.                                                            *)
(***************************************************************************)
IdleBound == config.idleThreshold * MsPerSecond + IdleCheckPeriod

C38_BoundedIdleResponse ==
  /\ [](isTracking /\ activeSession # NoSession =>
          /\ lastActivityTime # Null
          /\ now - lastActivityTime <= IdleBound)
  /\ [](StrictlyIdle /\ AtCheckTime =>
          ENABLED (TimedIdleCheck /\ activeSession' = NoSession))
  /\ [][TimedIdleCheck /\ StrictlyIdle =>
          /\ ClosedCurrent
          /\ activeSession' = NoSession
          /\ now - lastActivityTime <= IdleBound]_vars

\* the last activity was off the timer's beat, 5 s after the start of the
\* session; the check closed the session 125 s later, within the bound
C38_Witness ==
  /\ activeSession = NoSession
  /\ lastActivityTime = TimedStep
  /\ \E i \in idleClosed :
       /\ sessions[i].startTime = 0
       /\ sessions[i].endTime = now
       /\ now - lastActivityTime > config.idleThreshold * MsPerSecond
       /\ now - lastActivityTime < IdleBound

(***************************************************************************)
(* C39, as stated: the sessions in the queue stand in the order in which   *)
(* they were closed (session ids are given in the order of opening, and a  *)
(* session is closed before the next is opened, so this is the order of    *)
(* the ids), whichever of two outstanding immediate sends fails first.     *)
(***************************************************************************)
ClosedBefore(a, b) == sessions[a].endTime <= sessions[b].endTime /\ a < b

C39_QueuedInCloseOrder ==
  \A j, k \in 1..Len(queue) :
    j < k => ClosedBefore(queue[j].id, queue[k].id)

(***************************************************************************)
(* C39, amended: the sessions in the queue stand in the order in which     *)
(* their immediate sends failed; the append of a session puts it ahead of  *)
(* every session whose send is still outstanding, closed earlier or not.   *)
(***************************************************************************)
FailedAt(id) == CHOOSE n \in 1..Len(enqueueLog) : enqueueLog[n] = id

C39_QueuedInFailureOrder ==
  /\ [](\A j, k \in 1..Len(queue) :
          j < k => FailedAt(queue[j].id) < FailedAt(queue[k].id))
  /\ [][\A a \in inflight :
          SendSessionFail(a) =>
            /\ InQueue(a)' = 1
            /\ \A b \in inflight \ {a} : InQueue(b)' = 0]_vars

\* the later session's send failed first: it stands ahead of the one closed
\* before it
C39_Witness ==
  \E j, k \in 1..Len(queue) :
    /\ j < k
    /\ ClosedBefore(queue[k].id, queue[j].id)
    /\ FailedAt(queue[j].id) < FailedAt(queue[k].id)

(***************************************************************************)
(* C40: the failure counter of the drain is always one of 0..5, whatever   *)
(* starts the drains (the periodic timer, a reschedule or retry timeout,   *)
(* activation, setApiKey); so a retry is armed with one of the five delays *)
(* 1000 ms * 2^k, k in 1..5, and no armed timer waits longer than          *)
(* 1000 ms * 2^5.                                                          *)
(***************************************************************************)
RetryDelays == {BackoffBase * 2^k : k \in 1..5}

C40_FailureCounterBounded ==
  /\ [](uploadRetryCount \in 0..5)
  /\ [](\A delay \in BagToSet(timeouts) : delay <= 1000 * 2^5)
  /\ [][\A i \in 1..Len(drains) :
          BatchSendFail(i) =>
            \A delay \in BagToSet(timeouts') \ BagToSet(timeouts) :
              delay \in RetryDelays]_vars

\* the counter stands at its cap with the longest retry armed, and another
\* trigger has started a drain meanwhile
C40_Witness ==
  /\ uploadRetryCount = 5
  /\ timeouts = SetToBag({1000 * 2^5})
  /\ pendingUpload
  /\ Sending # {}

====
